---- MODULE Spec2Model ----
(***************************************************************************)
(* Craftopia backend: accounts with role-based authorization, JWT access   *)
(* and refresh tokens, the authentication / authorization middlewares and  *)
(* the route tables that bind them to the controllers.                     *)
(*                                                                         *)
(* A request is served in steps.  Each step is the synchronous code around *)
(* one database operation (every `await` on the store is a point where     *)
(* other requests may run).  The arrival step runs the middleware chain of *)
(* the route; the controller steps follow.                                 *)
(***************************************************************************)
EXTENDS Integers, FiniteSets, Sequences, TLC

VARIABLES
    users,      \* the User collection: id -> document
    nextUserId, \* ids are never reused (ObjectId)
    issued,     \* every token handed out by generateTokens so far
    now,        \* wall clock, in days
    env,        \* process environment read at start-up
    categories,     \* the Category collection: id -> document
    nextCategoryId,
    decors,         \* the Decor collection: id -> document
    nextDecorId,
    assets,         \* the asset host: asset id -> absent, hosted or deleted
    inflight,   \* requests whose controller has been entered and not answered
    last        \* what the most recent step did (request, middleware outcome, response)

accountVars == <<users, nextUserId, issued, now, env>>

catalogVars == <<categories, nextCategoryId, decors, nextDecorId, assets>>

vars == <<accountVars, catalogVars, inflight, last>>

(***************************************************************************)
(* Bounds of the model                                                     *)
(***************************************************************************)
MaxUsers == 2
MaxTime == 1
MaxIssued == 4
MaxCategories == 2
MaxDecors == 2
MaxStock == 1
MaxPrice == 2
MaxInflight == 2
MaxDecorCount == 2
MaxItems == 7
MaxPage == 3
MaxLimit == 3
MaxAssets == 3

(***************************************************************************)
(* Program constants                                                       *)
(***************************************************************************)
RefreshDays == 7
DefaultAccessDays == 7
ShortAccessDays == 1

\* maxAge of the refreshToken cookie, in days
CookieMaxAgeDays == 7

\* defaults of the page and limit query parameters (getAllUsers)
DefaultPage == 1
DefaultLimit == 10

USER == "user"
ADMIN == "admin"
SUPER_ADMIN == "super_admin"
UserRole == {USER, ADMIN, SUPER_ADMIN}

Undefined == "undefined"
JWT_SECRET == "jwt-secret"
OtherSecret == "refresh-secret"
AttackerKey == "attacker-key"

UserIds == 1..MaxUsers
SuperAdminEmail == "admin@craftopia.com"
Emails == {"a@x.com", "b@x.com"}
Passwords == {"pw1", "pw2"}

(***************************************************************************)
(* Credential codec                                                        *)
(***************************************************************************)
hashPassword(password) == <<"bcrypt", password>>

comparePassword(password, hashedPassword) == hashedPassword = <<"bcrypt", password>>

(***************************************************************************)
(* User documents                                                          *)
(***************************************************************************)
NoUser == [exists |-> FALSE, email |-> Undefined, password |-> <<>>, role |-> USER,
           isActive |-> FALSE, lastLogin |-> -1]

\* new User({...}) with the schema defaults
NewUser(email, password) ==
    [exists |-> TRUE, email |-> email, password |-> password, role |-> USER,
     isActive |-> TRUE, lastLogin |-> -1]

\* the account written by the createSuperAdmin script
SuperAdminUser ==
    [exists |-> TRUE, email |-> SuperAdminEmail, password |-> hashPassword("pw1"),
     role |-> SUPER_ADMIN, isActive |-> TRUE, lastLogin |-> -1]

\* User.findById(id): the document, or null
findById(id) == IF id \in UserIds /\ users[id].exists THEN users[id] ELSE NoUser

\* User.findOne({ email }): the id of the document, or 0
findOneByEmail(email) ==
    IF \E u \in UserIds : users[u].exists /\ users[u].email = email
    THEN CHOOSE u \in UserIds : users[u].exists /\ users[u].email = email
    ELSE 0

(***************************************************************************)
(* Catalog documents                                                       *)
(***************************************************************************)
CategoryIds == 1..MaxCategories

DecorIds == 1..MaxDecors

AssetIds == 1..MaxAssets

CategoryNames == {"Vases", "vases", "Wall Art", "wall-art", "Art (Wall)", "art (wall)"}

DecorNames == {"Blue Vase", "blue vase"}

\* String.toLowerCase on the names of the model
toLowerCase(text) ==
    CASE text = "Vases" -> "vases"
      [] text = "Wall Art" -> "wall art"
      [] text = "Blue Vase" -> "blue vase"
      [] text = "Art (Wall)" -> "art (wall)"
      [] OTHER -> text

\* generateSlug: lower case, trim, drop special characters, runs of blanks,
\* underscores and hyphens become one hyphen
generateSlug(text) ==
    LET lower == toLowerCase(text) IN
    CASE lower = "wall art" -> "wall-art"
      [] lower = "blue vase" -> "blue-vase"
      [] lower = "art (wall)" -> "art-wall"
      [] OTHER -> lower

ACTIVE == "active"
INACTIVE == "inactive"
OUT_OF_STOCK == "out_of_stock"
DISCONTINUED == "discontinued"
DecorStatus == {ACTIVE, INACTIVE, OUT_OF_STOCK, DISCONTINUED}

NoCategory == [exists |-> FALSE, name |-> Undefined, slug |-> Undefined,
               isActive |-> FALSE, decorCount |-> 0]

\* new Category({ name, ... }) with the schema defaults
NewCategory(name) ==
    [exists |-> TRUE, name |-> name, slug |-> Undefined, isActive |-> TRUE, decorCount |-> 0]

\* an optional number of a request body: <<>> when the field is absent
None == <<>>

Some(v) == <<v>>

\* the originalPrice of a document that has none (undefined)
NoPrice == -1

\* the asset host before any upload
NoAssets == [a \in AssetIds |-> "absent"]

\* uploadMultipleToCloudinary(files): the host stores each file under a new id
\* and returns its URL (a request carries at most one file here)
uploadedUrls(store, files) ==
    IF files = 0 THEN {}
    ELSE {CHOOSE a \in AssetIds :
             /\ store[a] = "absent"
             /\ \A b \in AssetIds : store[b] = "absent" => a <= b}

uploadMultipleToCloudinary(store, files) ==
    [a \in AssetIds |-> IF a \in uploadedUrls(store, files) THEN "hosted" ELSE store[a]]

\* deleteMultipleFromCloudinary(publicIds): the host removes the assets
deleteMultipleFromCloudinary(store, urls) ==
    [a \in AssetIds |-> IF a \in urls THEN "deleted" ELSE store[a]]

NoDecor == [exists |-> FALSE, name |-> Undefined, slug |-> Undefined, category |-> 0,
            price |-> 0, originalPrice |-> NoPrice, stock |-> 0, status |-> ACTIVE,
            featured |-> FALSE, images |-> {}]

\* new Decor({ name, category, price: Number(price),
\*             originalPrice: originalPrice ? Number(originalPrice) : undefined, ... })
\* with the schema defaults; the number 0 of a JSON body is falsy, the string "0"
\* of a form is not
NewDecor(body) ==
    [exists |-> TRUE, name |-> body.name, slug |-> Undefined, category |-> body.category,
     price |-> body.price,
     originalPrice |-> IF body.originalPrice = None THEN NoPrice
                       ELSE IF body.json /\ body.originalPrice[1] = 0 THEN NoPrice
                       ELSE body.originalPrice[1],
     stock |-> body.stock,
     status |-> ACTIVE, featured |-> FALSE, images |-> {}]

CategoryDoc(store, id) == IF id \in CategoryIds THEN store[id] ELSE NoCategory

DecorDoc(store, id) == IF id \in DecorIds THEN store[id] ELSE NoDecor

\* new RegExp(`^${name}$`, "i"): the lower-case text the pattern matches.  The
\* name is spliced into the pattern as it is, so its parentheses form a group
\* and stand for no character.
regexText(name) ==
    CASE toLowerCase(name) = "art (wall)" -> "art wall"
      [] OTHER -> toLowerCase(name)

\* Category.findOne({ name: /^name$/i, _id: { $ne: except } }): is there such a document
categoryNameTaken(name, except) ==
    \E c \in CategoryIds :
        /\ c # except
        /\ categories[c].exists
        /\ toLowerCase(categories[c].name) = regexText(name)

\* Decor.countDocuments({ category: id })
countDecors(id) == Cardinality({d \in DecorIds : decors[d].exists /\ decors[d].category = id})

(***************************************************************************)
(* Token issuer / verifier                                                 *)
(* A token is its payload {id, role}, its expiry and the key that signed   *)
(* it.  `kind` records which slot of generateTokens returned it; it is not *)
(* part of the JWT and no operation reads it.                              *)
(***************************************************************************)
NoToken == [sub |-> 0, role |-> USER, kind |-> "none", key |-> Undefined, exp |-> 0]

AccessDays == env.JWT_EXPIRE

\* the pair signed at time t when the access token lives accessDays
TokensAt(id, role, t, accessDays) ==
    [accessToken  |-> [sub |-> id, role |-> role, kind |-> "access",
                       key |-> JWT_SECRET, exp |-> t + accessDays],
     refreshToken |-> [sub |-> id, role |-> role, kind |-> "refresh",
                       key |-> JWT_SECRET, exp |-> t + RefreshDays]]

generateTokens(id, role) == TokensAt(id, role, now, AccessDays)

\* jwt.verify(token, secret): TRUE when it returns the payload, FALSE when it throws
jwtVerify(token, secret) ==
    /\ secret # Undefined
    /\ token # NoToken
    /\ token.key = secret
    /\ now < token.exp

verifyToken(token) == jwtVerify(token, JWT_SECRET)

(***************************************************************************)
(* Requests                                                                *)
(***************************************************************************)
NoIdentity == [id |-> 0, email |-> Undefined, role |-> "anonymous"]

NoHeader == [scheme |-> "none", token |-> NoToken]

NoBody == [role |-> Undefined, isActive |-> Undefined, email |-> Undefined,
           password |-> Undefined]

\* tokens a client can put in a request: the ones the server handed out, and
\* ones it signed itself for an account that exists or once existed
Forged(u) == [sub |-> u, role |-> SUPER_ADMIN, kind |-> "forged", key |-> AttackerKey,
              exp |-> MaxTime + RefreshDays + 1]

PresentableTokens == issued \cup {Forged(1)}

\* Authorization header values: absent, "Bearer <token>", "Bearer" alone, another scheme
Bearer(t) == [scheme |-> "Bearer", token |-> t]

BasicHeader == [scheme |-> "Basic", token |-> NoToken]

\* the <<Authorization header, token cookie>> pairs a client sends
Credentials ==
    {<<h, NoToken>> : h \in {NoHeader, Bearer(NoToken), BasicHeader}}
    \cup {<<Bearer(t), NoToken>> : t \in PresentableTokens}
    \cup {<<NoHeader, t>> : t \in PresentableTokens}
    \cup {<<h, t>> : h \in {Bearer(NoToken), BasicHeader, Bearer(Forged(1))}, t \in issued}

(***************************************************************************)
(* Authentication middleware                                               *)
(***************************************************************************)
\* the token read from the Authorization header, else from the token cookie
extractToken(hdr, cookieToken) ==
    IF hdr.scheme = "Bearer" THEN hdr.token
    ELSE IF cookieToken # NoToken THEN cookieToken
    ELSE NoToken

identityOf(id) == [id |-> id, email |-> users[id].email, role |-> users[id].role]

\* faulty variant of authenticate: the isActive test is dropped
authenticateIgnoringActive(hdr, cookieToken) ==
    LET token == extractToken(hdr, cookieToken) IN
    IF token = NoToken
    THEN [nextCalls |-> 0, sent |-> <<401>>, user |-> NoIdentity]
    ELSE IF ~verifyToken(token)
    THEN [nextCalls |-> 0, sent |-> <<401>>, user |-> NoIdentity]
    ELSE LET user == findById(token.sub) IN
         IF ~user.exists
         THEN [nextCalls |-> 0, sent |-> <<401>>, user |-> NoIdentity]
         ELSE [nextCalls |-> 1, sent |-> <<>>, user |-> identityOf(token.sub)]

\* faulty variant of authenticate: req.user.role is the token's role claim and
\* the stored user is not looked up
authenticateFromClaims(hdr, cookieToken) ==
    LET token == extractToken(hdr, cookieToken) IN
    IF token = NoToken
    THEN [nextCalls |-> 0, sent |-> <<401>>, user |-> NoIdentity]
    ELSE IF ~verifyToken(token)
    THEN [nextCalls |-> 0, sent |-> <<401>>, user |-> NoIdentity]
    ELSE [nextCalls |-> 1, sent |-> <<>>,
          user |-> [id |-> token.sub, email |-> Undefined, role |-> token.role]]

\* outcome of a middleware: how often it called next, the responses it sent,
\* and req.user when it returns
authenticate(hdr, cookieToken) ==
    LET token == extractToken(hdr, cookieToken) IN
    IF token = NoToken
    THEN [nextCalls |-> 0, sent |-> <<401>>, user |-> NoIdentity]
    ELSE IF ~verifyToken(token)
    THEN [nextCalls |-> 0, sent |-> <<401>>, user |-> NoIdentity]
    ELSE LET user == findById(token.sub) IN
         IF ~user.exists \/ ~user.isActive
         THEN [nextCalls |-> 0, sent |-> <<401>>, user |-> NoIdentity]
         ELSE [nextCalls |-> 1, sent |-> <<>>, user |-> identityOf(token.sub)]

\* faulty variant of optionalAuth: a token that fails is answered 401
optionalAuthRejecting(hdr, cookieToken) ==
    LET token == extractToken(hdr, cookieToken) IN
    IF token = NoToken
    THEN [nextCalls |-> 1, sent |-> <<>>, user |-> NoIdentity]
    ELSE IF verifyToken(token)
            /\ findById(token.sub).exists /\ findById(token.sub).isActive
    THEN [nextCalls |-> 1, sent |-> <<>>, user |-> identityOf(token.sub)]
    ELSE [nextCalls |-> 0, sent |-> <<401>>, user |-> NoIdentity]

optionalAuth(hdr, cookieToken) ==
    LET token == extractToken(hdr, cookieToken) IN
    IF token # NoToken /\ verifyToken(token)
       /\ findById(token.sub).exists /\ findById(token.sub).isActive
    THEN [nextCalls |-> 1, sent |-> <<>>, user |-> identityOf(token.sub)]
    ELSE [nextCalls |-> 1, sent |-> <<>>, user |-> NoIdentity]

(***************************************************************************)
(* Authorization middleware                                                *)
(***************************************************************************)
\* faulty variant of authorize: the role test is dropped
authorizeAnyRole(roles, user) ==
    IF user = NoIdentity
    THEN [nextCalls |-> 0, sent |-> <<401>>]
    ELSE [nextCalls |-> 1, sent |-> <<>>]

authorize(roles, user) ==
    IF user = NoIdentity
    THEN [nextCalls |-> 0, sent |-> <<401>>]
    ELSE IF user.role \notin roles
    THEN [nextCalls |-> 0, sent |-> <<403>>]
    ELSE [nextCalls |-> 1, sent |-> <<>>]

adminOnly == {ADMIN, SUPER_ADMIN}

superAdminOnly == {SUPER_ADMIN}

(***************************************************************************)
(* Route tables: the middleware chain in front of each controller          *)
(***************************************************************************)
UserAdminOps == {"getUserById", "updateUser", "deleteUser", "deactivateUser", "activateUser"}

UserSuperOps == {"promoteToAdmin", "demoteFromAdmin"}

UserOps == UserAdminOps \cup UserSuperOps

\* user routes without an :id parameter
UserListOps == {"getAllUsers", "getUserStats"}

CategoryReadOps == {"getCategoryById"}

CategoryWriteOps == {"createCategory", "updateCategory", "deleteCategory"}

CategoryOps == CategoryReadOps \cup CategoryWriteOps

DecorReadOps == {"getDecorById"}

DecorWriteOps == {"createDecor", "updateDecor", "updateStock", "deleteDecor"}

DecorOps == DecorReadOps \cup DecorWriteOps

PublicAuthOps == {"register", "login", "refreshToken"}

ProfileOps == {"getProfile"}

ProfileWriteOps == {"updateProfile"}

SessionOps == {"logout"}

\* the public decor lists: GET /decors, /decors/featured, /decors/search and
\* GET /categories/:id/decors
DecorListOps == {"getActiveDecors", "getFeaturedDecors", "searchDecors", "getCategoryDecors"}

Ops ==
    UserOps \cup UserListOps \cup PublicAuthOps \cup ProfileOps \cup ProfileWriteOps
    \cup SessionOps \cup CategoryOps \cup DecorOps \cup DecorListOps

\* the authentication middleware of the route: authenticate, optionalAuth or none
RouteAuth(op) ==
    IF op \in UserOps \cup UserListOps \cup ProfileOps \cup ProfileWriteOps
              \cup CategoryWriteOps \cup DecorWriteOps
    THEN "authenticate"
    ELSE IF op \in CategoryReadOps \cup DecorReadOps \cup {"getCategoryDecors"} THEN "optionalAuth"
    ELSE "none"

\* faulty variant of the route tables: the catalog routers lack router.use(adminOnly)
RouteRolesUsersOnly(op) ==
    IF op \in UserAdminOps \cup UserListOps THEN adminOnly
    ELSE IF op \in UserSuperOps THEN superAdminOnly
    ELSE {}

\* the role set of the route's authorize middleware; {} when the route has none
RouteRoles(op) ==
    IF op \in UserAdminOps \cup UserListOps \cup CategoryWriteOps \cup DecorWriteOps THEN adminOnly
    ELSE IF op \in UserSuperOps THEN superAdminOnly
    ELSE {}

\* routes with validateObjectId("id")
RouteHasId(op) ==
    op \in UserOps \cup (CategoryOps \ {"createCategory"}) \cup (DecorOps \ {"createDecor"})
           \cup {"getCategoryDecors"}

\* validateObjectId: a malformed id (modelled as 0) is refused
validateObjectId(id) == id # 0

\* categorySchemas.create: the name is required
categorySchemasCreate(body) == body.name # Undefined

\* validateCreateDecor: the required fields are truthy (the number 0 of a JSON
\* body is not, the string "0" of a form is) and the category id is well formed
validateCreateDecor(body) ==
    /\ body.name # Undefined
    /\ body.json => body.price # 0 /\ body.stock # 0
    /\ body.category # 0

\* validateUpdateDecor: the category id, when given, is well formed
validateUpdateDecor(body) == body.category # None => body.category[1] # 0

\* faulty variant of the body validators: PUT /users/:id lets any role through
validateBodyAnyRole(op, body) ==
    IF op = "createCategory" THEN categorySchemasCreate(body)
    ELSE IF op = "createDecor" THEN validateCreateDecor(body)
    ELSE IF op = "updateDecor" THEN validateUpdateDecor(body)
    ELSE IF op = "updateStock" THEN body.stock # None /\ body.stock[1] >= 0
    ELSE TRUE

\* the body validator of the route
validateBody(op, body) ==
    IF op = "updateUser" THEN body.role \in {Undefined, USER, ADMIN}
    ELSE IF op = "createCategory" THEN categorySchemasCreate(body)
    ELSE IF op = "createDecor" THEN validateCreateDecor(body)
    ELSE IF op = "updateDecor" THEN validateUpdateDecor(body)
    ELSE IF op = "updateStock" THEN body.stock # None /\ body.stock[1] >= 0
    ELSE TRUE

(***************************************************************************)
(* The arrival step: the middleware chain up to the controller             *)
(***************************************************************************)
NoAuthOut == [nextCalls |-> 1, sent |-> <<>>, user |-> NoIdentity]

NoAuthzOut == [nextCalls |-> 1, sent |-> <<>>]

AuthOut(op, hdr, cookieToken) ==
    IF RouteAuth(op) = "authenticate" THEN authenticate(hdr, cookieToken)
    ELSE IF RouteAuth(op) = "optionalAuth" THEN optionalAuth(hdr, cookieToken)
    ELSE NoAuthOut

AuthzOut(op, user) ==
    IF RouteRoles(op) # {} THEN authorize(RouteRoles(op), user) ELSE NoAuthzOut

\* what is true of the presented token when the middleware runs
TokenFacts(token) ==
    [supplied |-> token # NoToken,
     issuedByServer |-> token \in issued,
     expired |-> now >= token.exp,
     kind |-> token.kind,
     sub |-> token.sub,
     roleClaim |-> token.role,
     userExists |-> token.sub \in UserIds /\ users[token.sub].exists,
     userActive |-> token.sub \in UserIds /\ users[token.sub].exists
                    /\ users[token.sub].isActive,
     storedRole |-> IF token.sub \in UserIds /\ users[token.sub].exists
                    THEN users[token.sub].role ELSE "anonymous"]

TargetDoc(store, id) == IF id \in UserIds THEN store[id] ELSE NoUser

\* the document a request is about, before and after a step
BeforeDoc(op, id) ==
    IF op \in CategoryOps \cup {"getCategoryDecors"} THEN CategoryDoc(categories, id)
    ELSE IF op \in DecorOps THEN DecorDoc(decors, id)
    ELSE TargetDoc(users, id)

AfterDoc(op, id) ==
    IF op \in CategoryOps \cup {"getCategoryDecors"} THEN CategoryDoc(categories', id)
    ELSE IF op \in DecorOps THEN DecorDoc(decors', id)
    ELSE TargetDoc(users', id)

\* the Set-Cookie header of a response: none, res.cookie or res.clearCookie
NoCookie ==
    [action |-> "none", name |-> Undefined, value |-> NoToken,
     httpOnly |-> FALSE, sameSite |-> Undefined, maxAge |-> 0]

\* res.cookie("refreshToken", tokens.refreshToken, { httpOnly, sameSite, maxAge })
refreshCookie(token) ==
    [action |-> "set", name |-> "refreshToken", value |-> token,
     httpOnly |-> TRUE, sameSite |-> "strict", maxAge |-> CookieMaxAgeDays]

\* res.clearCookie("refreshToken", { httpOnly, sameSite })
clearCookie ==
    [action |-> "clear", name |-> "refreshToken", value |-> NoToken,
     httpOnly |-> TRUE, sameSite |-> "strict", maxAge |-> 0]

\* faulty variant of the token response: the body carries both tokens
tokenBodyWithRefresh(tokens) == {tokens.accessToken, tokens.refreshToken}

\* the tokens in the JSON body of a register, login or refresh response
tokenBody(tokens) == {tokens.accessToken}

InitLast ==
    [op |-> "none", phase |-> "init", id |-> 0, tok |-> TokenFacts(NoToken),
     auth |-> "none", authOut |-> NoAuthOut, authzRoles |-> {}, authzOut |-> NoAuthzOut,
     reached |-> FALSE, status |-> 0, caller |-> NoIdentity,
     before |-> NoUser, after |-> NoUser, resTokens |-> {}, cookie |-> NoCookie,
     creds |-> "none", thrown |-> FALSE, listed |-> {}]

\* the first response sent by the chain, 0 when none
ChainStatus(a, z, idOk, bodyOk) ==
    IF a.sent # <<>> THEN a.sent[1]
    ELSE IF z.sent # <<>> THEN z.sent[1]
    ELSE IF ~idOk THEN 400
    ELSE IF ~bodyOk THEN 400
    ELSE 0

NewRequest(op, user, id, body, refresh) ==
    [op |-> op, user |-> user, id |-> id, body |-> body, refresh |-> refresh,
     pc |-> "ctrl", doc |-> NoUser, modified |-> {}]

\* `bodies` are the bodies the client may have sent: the body is read (by the
\* route's validator and the controller) only when the chain gets that far
Arrival(op, hdr, cookieToken, id, bodies, refresh) ==
    LET a == AuthOut(op, hdr, cookieToken)
        z == IF a.nextCalls = 1 THEN AuthzOut(op, a.user) ELSE [nextCalls |-> 0, sent |-> <<>>]
        idOk == RouteHasId(op) => validateObjectId(id)
        passed == a.nextCalls = 1 /\ z.nextCalls = 1 /\ idOk
        seen(reached, status) ==
            [op |-> op, phase |-> "arrival", id |-> id,
             tok |-> TokenFacts(extractToken(hdr, cookieToken)),
             auth |-> RouteAuth(op), authOut |-> a,
             authzRoles |-> RouteRoles(op), authzOut |-> z,
             reached |-> reached, status |-> status, caller |-> a.user,
             before |-> BeforeDoc(op, id), after |-> BeforeDoc(op, id),
             resTokens |-> {}, cookie |-> NoCookie, creds |-> "none",
             thrown |-> FALSE, listed |-> {}]
    IN
    /\ UNCHANGED <<users, nextUserId, issued, now, env, catalogVars>>
    /\ IF ~passed
       THEN /\ inflight' = inflight
            /\ last' = seen(FALSE, ChainStatus(a, z, idOk, TRUE))
       ELSE \E body \in bodies :
            IF validateBody(op, body)
            THEN /\ inflight' = inflight \cup {NewRequest(op, a.user, id, body, refresh)}
                 /\ last' = seen(TRUE, 0)
            ELSE /\ inflight' = inflight
                 /\ last' = seen(FALSE, 400)

(***************************************************************************)
(* Controller steps                                                        *)
(***************************************************************************)
\* whether the body of a login request holds the password of the account it names
LoginCreds(r) ==
    IF r.op = "login" /\ findOneByEmail(r.body.email) # 0
    THEN IF comparePassword(r.body.password, users[findOneByEmail(r.body.email)].password)
         THEN "valid" ELSE "invalid"
    ELSE "none"

CtrlLast(r, status, tokenSeen, afterDoc) ==
    [op |-> r.op, phase |-> "ctrl", id |-> r.id, tok |-> TokenFacts(tokenSeen),
     auth |-> "none", authOut |-> NoAuthOut, authzRoles |-> {}, authzOut |-> NoAuthzOut,
     reached |-> TRUE, status |-> status, caller |-> r.user,
     before |-> BeforeDoc(r.op, r.id), after |-> afterDoc,
     resTokens |-> {}, cookie |-> NoCookie, creds |-> LoginCreds(r), thrown |-> FALSE,
     listed |-> {}]

\* the controller answers: the request leaves the server
RespondAs(r, shown, status) ==
    /\ inflight' = inflight \ {r}
    /\ last' = CtrlLast(shown, status, NoToken, AfterDoc(shown.op, shown.id))

Respond(r, status) == RespondAs(r, r, status)

\* a filter that lets every status through
anyStatusFilter(decor) == TRUE

\* the filter { status: DecorStatus.ACTIVE } of the public decor reads
activeFilter(decor) == decor.status = ACTIVE

\* the controller answers with the decors (ids) its query returned
RespondList(r, status, found) ==
    /\ inflight' = inflight \ {r}
    /\ last' = [CtrlLast(r, status, NoToken, AfterDoc(r.op, r.id)) EXCEPT !.listed = found]

\* the status the controller's catch block answers with
catchStatus(op) == IF op = "refreshToken" THEN 401 ELSE 500

\* an error was thrown (or a promise rejected) inside the controller's try block:
\* the catch block logs it and answers
Caught(r, tokenSeen) ==
    /\ inflight' = inflight \ {r}
    /\ last' = [CtrlLast(r, catchStatus(r.op), tokenSeen, AfterDoc(r.op, r.id))
                    EXCEPT !.thrown = TRUE]

\* the controller sets the refreshToken cookie and answers with the access token
RespondTokens(r, shown, status, tokenSeen, tokens) ==
    /\ inflight' = inflight \ {r}
    /\ last' = [CtrlLast(shown, status, tokenSeen, AfterDoc(shown.op, shown.id))
                    EXCEPT !.resTokens = tokenBody(tokens),
                           !.cookie = refreshCookie(tokens.refreshToken)]

\* the controller goes on to its next database operation
Continue(r, next) ==
    /\ inflight' = (inflight \ {r}) \cup {next}
    /\ last' = CtrlLast(r, 0, NoToken, AfterDoc(r.op, r.id))

\* the paths a document assignment marks modified: those whose value changes
Modified(old, new) ==
    {f \in {"role", "isActive"} :
        \/ f = "role" /\ old.role # new.role
        \/ f = "isActive" /\ old.isActive # new.isActive}

Loaded(r, old, new) ==
    [r EXCEPT !.pc = "save", !.doc = new, !.modified = Modified(old, new)]

\* document.save(): writes the modified paths of the in-memory document
SaveStatus(r) ==
    IF r.modified = {} THEN 200
    ELSE IF ~users[r.id].exists THEN 500
    ELSE 200

SaveUsers(r) ==
    IF r.modified = {} \/ ~users[r.id].exists THEN users
    ELSE [users EXCEPT ![r.id] =
            [@ EXCEPT !.role = IF "role" \in r.modified THEN r.doc.role ELSE @,
                      !.isActive = IF "isActive" \in r.modified THEN r.doc.isActive ELSE @,
                      !.lastLogin = IF "lastLogin" \in r.modified THEN r.doc.lastLogin ELSE @]]

SaveStep(r) ==
    /\ r.pc = "save"
    /\ users' = SaveUsers(r)
    /\ IF SaveStatus(r) = 500 THEN Caught(r, NoToken) ELSE Respond(r, SaveStatus(r))
    /\ UNCHANGED <<nextUserId, issued, now, env, catalogVars>>

\* getAllUsers, getUserStats: queries that answer 200
getAllUsers(r) ==
    /\ r.op = "getAllUsers" /\ r.pc = "ctrl"
    /\ UNCHANGED <<accountVars, catalogVars>>
    /\ Respond(r, 200)

getUserStats(r) ==
    /\ r.op = "getUserStats" /\ r.pc = "ctrl"
    /\ UNCHANGED <<accountVars, catalogVars>>
    /\ Respond(r, 200)

getUserById(r) ==
    /\ r.op = "getUserById" /\ r.pc = "ctrl"
    /\ UNCHANGED <<users, nextUserId, issued, now, env, catalogVars>>
    /\ Respond(r, IF findById(r.id).exists THEN 200 ELSE 404)

\* updateUser: const user = await User.findById(id); assign the body fields
UpdatedDoc(user, body) ==
    [user EXCEPT !.role = IF body.role # Undefined THEN body.role ELSE @,
                 !.isActive = IF body.isActive # Undefined THEN body.isActive = "true" ELSE @]

updateUserLoad(r) ==
    /\ r.op = "updateUser" /\ r.pc = "ctrl"
    /\ UNCHANGED <<users, nextUserId, issued, now, env, catalogVars>>
    /\ LET user == findById(r.id) IN
       IF ~user.exists THEN Respond(r, 404)
       ELSE Continue(r, Loaded(r, user, UpdatedDoc(user, r.body)))

updateUserSave(r) == r.op = "updateUser" /\ SaveStep(r)

deleteUserLoad(r) ==
    /\ r.op = "deleteUser" /\ r.pc = "ctrl"
    /\ UNCHANGED <<users, nextUserId, issued, now, env, catalogVars>>
    /\ LET user == findById(r.id) IN
       IF ~user.exists THEN Respond(r, 404)
       ELSE IF user.role = SUPER_ADMIN THEN Respond(r, 403)
       ELSE Continue(r, [r EXCEPT !.pc = "delete", !.doc = user])

\* await User.findByIdAndDelete(id)
deleteUserDelete(r) ==
    /\ r.op = "deleteUser" /\ r.pc = "delete"
    /\ users' = [users EXCEPT ![r.id] = NoUser]
    /\ Respond(r, 200)
    /\ UNCHANGED <<nextUserId, issued, now, env, catalogVars>>

\* faulty variant of deactivateUser: the super_admin test is dropped
deactivateUserLoadUnguarded(r) ==
    /\ r.op = "deactivateUser" /\ r.pc = "ctrl"
    /\ UNCHANGED <<users, nextUserId, issued, now, env, catalogVars>>
    /\ LET user == findById(r.id) IN
       IF ~user.exists THEN Respond(r, 404)
       ELSE Continue(r, Loaded(r, user, [user EXCEPT !.isActive = FALSE]))

deactivateUserLoad(r) ==
    /\ r.op = "deactivateUser" /\ r.pc = "ctrl"
    /\ UNCHANGED <<users, nextUserId, issued, now, env, catalogVars>>
    /\ LET user == findById(r.id) IN
       IF ~user.exists THEN Respond(r, 404)
       ELSE IF user.role = SUPER_ADMIN THEN Respond(r, 403)
       ELSE Continue(r, Loaded(r, user, [user EXCEPT !.isActive = FALSE]))

deactivateUserSave(r) == r.op = "deactivateUser" /\ SaveStep(r)

activateUserLoad(r) ==
    /\ r.op = "activateUser" /\ r.pc = "ctrl"
    /\ UNCHANGED <<users, nextUserId, issued, now, env, catalogVars>>
    /\ LET user == findById(r.id) IN
       IF ~user.exists THEN Respond(r, 404)
       ELSE Continue(r, Loaded(r, user, [user EXCEPT !.isActive = TRUE]))

activateUserSave(r) == r.op = "activateUser" /\ SaveStep(r)

promoteToAdminLoad(r) ==
    /\ r.op = "promoteToAdmin" /\ r.pc = "ctrl"
    /\ UNCHANGED <<users, nextUserId, issued, now, env, catalogVars>>
    /\ LET user == findById(r.id) IN
       IF ~user.exists THEN Respond(r, 404)
       ELSE IF user.role = ADMIN \/ user.role = SUPER_ADMIN THEN Respond(r, 400)
       ELSE Continue(r, Loaded(r, user, [user EXCEPT !.role = ADMIN]))

promoteToAdminSave(r) == r.op = "promoteToAdmin" /\ SaveStep(r)

demoteFromAdminLoad(r) ==
    /\ r.op = "demoteFromAdmin" /\ r.pc = "ctrl"
    /\ UNCHANGED <<users, nextUserId, issued, now, env, catalogVars>>
    /\ LET user == findById(r.id) IN
       IF ~user.exists THEN Respond(r, 404)
       ELSE IF user.role = SUPER_ADMIN THEN Respond(r, 403)
       ELSE IF user.role = USER THEN Respond(r, 400)
       ELSE Continue(r, Loaded(r, user, [user EXCEPT !.role = USER]))

demoteFromAdminSave(r) == r.op = "demoteFromAdmin" /\ SaveStep(r)

(***************************************************************************)
(* Authentication controllers                                              *)
(***************************************************************************)
\* register: const existingUser = await User.findOne({ email })
registerFind(r) ==
    /\ r.op = "register" /\ r.pc = "ctrl"
    /\ UNCHANGED <<users, nextUserId, issued, now, env, catalogVars>>
    /\ IF findOneByEmail(r.body.email) # 0 THEN Respond(r, 400)
       ELSE Continue(r, [r EXCEPT !.pc = "save"])

\* faulty variant of the User schema: email has no unique index
uniqueEmailIndexAbsent(email) == FALSE

\* the unique index on User.email refuses the insert of a second document
uniqueEmailIndex(email) == findOneByEmail(email) # 0

\* register: await user.save() inserts the document; the email index is unique
registerSave(r) ==
    /\ r.op = "register" /\ r.pc = "save"
    /\ IF uniqueEmailIndex(r.body.email)
       THEN /\ UNCHANGED <<users, nextUserId, issued, catalogVars>>
            /\ Caught(r, NoToken)
       ELSE LET id == nextUserId
                user == NewUser(r.body.email, hashPassword(r.body.password))
                tokens == generateTokens(id, user.role) IN
            /\ users' = [users EXCEPT ![id] = user]
            /\ nextUserId' = nextUserId + 1
            /\ issued' = issued \cup {tokens.accessToken, tokens.refreshToken}
            /\ RespondTokens(r, [r EXCEPT !.id = id], 201, NoToken, tokens)
    /\ UNCHANGED <<now, env, catalogVars>>

\* faulty variant of login: the isActive test is dropped
loginFindIgnoringActive(r) ==
    /\ r.op = "login" /\ r.pc = "ctrl"
    /\ UNCHANGED <<users, nextUserId, issued, now, env, catalogVars>>
    /\ LET id == findOneByEmail(r.body.email) IN
       IF id = 0 THEN Respond(r, 401)
       ELSE IF ~comparePassword(r.body.password, users[id].password)
            THEN RespondAs(r, [r EXCEPT !.id = id], 401)
       ELSE Continue(r, [r EXCEPT !.pc = "save", !.id = id,
                                  !.doc = [users[id] EXCEPT !.lastLogin = now],
                                  !.modified = {"lastLogin"}])

\* login: const user = await User.findOne({ email }).select("+password")
loginFind(r) ==
    /\ r.op = "login" /\ r.pc = "ctrl"
    /\ UNCHANGED <<users, nextUserId, issued, now, env, catalogVars>>
    /\ LET id == findOneByEmail(r.body.email) IN
       IF id = 0 THEN Respond(r, 401)
       ELSE IF ~users[id].isActive THEN RespondAs(r, [r EXCEPT !.id = id], 403)
       ELSE IF ~comparePassword(r.body.password, users[id].password)
            THEN RespondAs(r, [r EXCEPT !.id = id], 401)
       ELSE Continue(r, [r EXCEPT !.pc = "save", !.id = id,
                                  !.doc = [users[id] EXCEPT !.lastLogin = now],
                                  !.modified = {"lastLogin"}])

\* login: await user.save(); generateTokens; set the cookie; answer
loginSave(r) ==
    /\ r.op = "login" /\ r.pc = "save"
    /\ users' = SaveUsers(r)
    /\ IF SaveStatus(r) = 200
       THEN LET tokens == generateTokens(r.id, r.doc.role) IN
            /\ issued' = issued \cup {tokens.accessToken, tokens.refreshToken}
            /\ RespondTokens(r, r, 200, NoToken, tokens)
       ELSE /\ issued' = issued
            /\ Caught(r, NoToken)
    /\ UNCHANGED <<nextUserId, now, env, catalogVars>>

\* refreshToken: verifies the cookie with JWT_REFRESH_SECRET, loads the user
refreshTokenStep(r) ==
    /\ r.op = "refreshToken" /\ r.pc = "ctrl"
    /\ UNCHANGED <<users, nextUserId, now, env, catalogVars>>
    /\ LET verified == jwtVerify(r.refresh, env.JWT_REFRESH_SECRET)
           ok == /\ r.refresh # NoToken
                 /\ verified
                 /\ findById(r.refresh.sub).exists
                 /\ findById(r.refresh.sub).isActive
           tokens == generateTokens(r.refresh.sub, users[r.refresh.sub].role) IN
       IF ok
       THEN /\ issued' = issued \cup {tokens.accessToken, tokens.refreshToken}
            /\ RespondTokens(r, r, 200, r.refresh, tokens)
       ELSE IF r.refresh # NoToken /\ ~verified
       THEN \* jwt.verify throws
            /\ issued' = issued
            /\ Caught(r, r.refresh)
       ELSE /\ issued' = issued
            /\ inflight' = inflight \ {r}
            /\ last' = CtrlLast(r, 401, r.refresh, BeforeDoc(r.op, r.id))

getProfile(r) ==
    /\ r.op = "getProfile" /\ r.pc = "ctrl"
    /\ UNCHANGED <<users, nextUserId, issued, now, env, catalogVars>>
    /\ Respond(r, IF findById(r.user.id).exists THEN 200 ELSE 404)

\* logout: clears the refreshToken cookie and answers 200
logout(r) ==
    /\ r.op = "logout" /\ r.pc = "ctrl"
    /\ UNCHANGED <<accountVars, catalogVars>>
    /\ inflight' = inflight \ {r}
    /\ last' = [CtrlLast(r, 200, NoToken, BeforeDoc(r.op, r.id))
                    EXCEPT !.cookie = clearCookie]

(***************************************************************************)
(* Category controllers                                                    *)
(***************************************************************************)
\* the unique index on slug: another document of the collection holds it
slugTaken(store, ids, slug, except) ==
    \E x \in ids : x # except /\ store[x].exists /\ store[x].slug = slug

\* the paths whose value differs between two versions of a document
ChangedPaths(old, new, paths) == {f \in paths : old[f] # new[f]}

\* the stored category with the given paths overwritten from doc
WriteCategory(stored, doc, paths) ==
    [stored EXCEPT !.name = IF "name" \in paths THEN doc.name ELSE @,
                   !.slug = IF "slug" \in paths THEN doc.slug ELSE @,
                   !.isActive = IF "isActive" \in paths THEN doc.isActive ELSE @]

CategoryPaths == {"name", "slug", "isActive"}

\* createCategory: await Category.findOne({ name: /^name$/i })
createCategoryFind(r) ==
    /\ r.op = "createCategory" /\ r.pc = "ctrl"
    /\ UNCHANGED <<accountVars, catalogVars>>
    /\ IF categoryNameTaken(r.body.name, 0) THEN Respond(r, 400)
       ELSE Continue(r, [r EXCEPT !.pc = "save", !.doc = NewCategory(r.body.name)])

\* createCategory: await category.save(); the pre-save hook derives the slug
createCategorySave(r) ==
    /\ r.op = "createCategory" /\ r.pc = "save"
    /\ nextCategoryId <= MaxCategories
    /\ LET doc == [r.doc EXCEPT !.slug = generateSlug(r.doc.name)] IN
       IF slugTaken(categories, CategoryIds, doc.slug, 0)
       THEN /\ UNCHANGED <<accountVars, catalogVars>>
            /\ Caught(r, NoToken)
       ELSE /\ categories' = [categories EXCEPT ![nextCategoryId] = doc]
            /\ nextCategoryId' = nextCategoryId + 1
            /\ UNCHANGED <<accountVars, decors, nextDecorId, assets>>
            /\ RespondAs(r, [r EXCEPT !.id = nextCategoryId], 201)

getCategoryById(r) ==
    /\ r.op = "getCategoryById" /\ r.pc = "ctrl"
    /\ UNCHANGED <<accountVars, catalogVars>>
    /\ Respond(r, IF CategoryDoc(categories, r.id).exists THEN 200 ELSE 404)

\* updateCategory: const category = await Category.findById(id)
updateCategoryFind(r) ==
    /\ r.op = "updateCategory" /\ r.pc = "ctrl"
    /\ UNCHANGED <<accountVars, catalogVars>>
    /\ LET category == CategoryDoc(categories, r.id) IN
       IF ~category.exists THEN Respond(r, 404)
       ELSE Continue(r, [r EXCEPT !.pc = "check", !.doc = category])

\* updateCategory: the name pre-check, then the assignments to the document
UpdatedCategory(category, body) ==
    [category EXCEPT !.name = IF body.name # Undefined THEN body.name ELSE @,
                     !.isActive = IF body.isActive # Undefined THEN body.isActive = "true" ELSE @]

updateCategoryCheck(r) ==
    /\ r.op = "updateCategory" /\ r.pc = "check"
    /\ UNCHANGED <<accountVars, catalogVars>>
    /\ IF /\ r.body.name # Undefined
          /\ r.body.name # r.doc.name
          /\ categoryNameTaken(r.body.name, r.id)
       THEN Respond(r, 400)
       ELSE LET doc == UpdatedCategory(r.doc, r.body) IN
            Continue(r, [r EXCEPT !.pc = "save", !.doc = doc,
                                  !.modified = ChangedPaths(r.doc, doc, CategoryPaths)])

\* updateCategory: await category.save()
updateCategorySave(r) ==
    /\ r.op = "updateCategory" /\ r.pc = "save"
    /\ LET doc == IF "name" \in r.modified
                  THEN [r.doc EXCEPT !.slug = generateSlug(r.doc.name)] ELSE r.doc
           paths == r.modified \cup ChangedPaths(r.doc, doc, CategoryPaths)
           failed == \/ paths # {} /\ ~categories[r.id].exists
                     \/ "slug" \in paths /\ slugTaken(categories, CategoryIds, doc.slug, r.id)
       IN
       /\ categories' = IF failed THEN categories
                        ELSE [categories EXCEPT ![r.id] = WriteCategory(@, doc, paths)]
       /\ UNCHANGED <<accountVars, nextCategoryId, decors, nextDecorId, assets>>
       /\ IF failed THEN Caught(r, NoToken) ELSE Respond(r, 200)

deleteCategoryFind(r) ==
    /\ r.op = "deleteCategory" /\ r.pc = "ctrl"
    /\ UNCHANGED <<accountVars, catalogVars>>
    /\ IF ~CategoryDoc(categories, r.id).exists THEN Respond(r, 404)
       ELSE Continue(r, [r EXCEPT !.pc = "count"])

\* faulty variant of deleteCategory: the decor count is not tested
deleteCategoryCountUnguarded(r) ==
    /\ r.op = "deleteCategory" /\ r.pc = "count"
    /\ UNCHANGED <<accountVars, catalogVars>>
    /\ Continue(r, [r EXCEPT !.pc = "delete"])

\* deleteCategory: await Decor.countDocuments({ category: id })
deleteCategoryCount(r) ==
    /\ r.op = "deleteCategory" /\ r.pc = "count"
    /\ UNCHANGED <<accountVars, catalogVars>>
    /\ IF countDecors(r.id) > 0 THEN Respond(r, 400)
       ELSE Continue(r, [r EXCEPT !.pc = "delete"])

\* deleteCategory: await Category.findByIdAndDelete(id)
deleteCategoryDelete(r) ==
    /\ r.op = "deleteCategory" /\ r.pc = "delete"
    /\ categories' = [categories EXCEPT ![r.id] = NoCategory]
    /\ UNCHANGED <<accountVars, nextCategoryId, decors, nextDecorId, assets>>
    /\ Respond(r, 200)

(***************************************************************************)
(* Decor controllers                                                       *)
(***************************************************************************)
DecorPaths ==
    {"name", "slug", "category", "price", "originalPrice", "stock", "status", "images"}

\* the stored decor with the given paths overwritten from doc
WriteDecor(stored, doc, paths) ==
    [stored EXCEPT !.name = IF "name" \in paths THEN doc.name ELSE @,
                   !.slug = IF "slug" \in paths THEN doc.slug ELSE @,
                   !.category = IF "category" \in paths THEN doc.category ELSE @,
                   !.price = IF "price" \in paths THEN doc.price ELSE @,
                   !.originalPrice = IF "originalPrice" \in paths THEN doc.originalPrice ELSE @,
                   !.stock = IF "stock" \in paths THEN doc.stock ELSE @,
                   !.status = IF "status" \in paths THEN doc.status ELSE @,
                   !.images = IF "images" \in paths THEN doc.images ELSE @]

\* faulty variant of the pre-save hook: the status does not follow the stock
preSaveDecorKeepingStatus(doc, modified) ==
    LET named == IF "name" \in modified
                 THEN [doc EXCEPT !.slug = generateSlug(doc.name)] ELSE doc
    IN IF /\ named.originalPrice # NoPrice /\ named.originalPrice # 0
          /\ named.price >= named.originalPrice
       THEN [named EXCEPT !.originalPrice = NoPrice]
       ELSE named

\* decorSchema.pre("save"): slug from the name, status from the stock, and an
\* original price that is not above the price is cleared
preSaveDecor(doc, modified) ==
    LET named == IF "name" \in modified
                 THEN [doc EXCEPT !.slug = generateSlug(doc.name)] ELSE doc
        stocked == IF "stock" \in modified
                   THEN IF named.stock = 0 /\ named.status # DISCONTINUED
                        THEN [named EXCEPT !.status = OUT_OF_STOCK]
                        ELSE IF named.stock > 0 /\ named.status = OUT_OF_STOCK
                        THEN [named EXCEPT !.status = ACTIVE]
                        ELSE named
                   ELSE named
    IN IF /\ stocked.originalPrice # NoPrice /\ stocked.originalPrice # 0
          /\ stocked.price >= stocked.originalPrice
       THEN [stocked EXCEPT !.originalPrice = NoPrice]
       ELSE stocked

\* decorSchema.post("save"): Category.findByIdAndUpdate(category, { $inc: { decorCount: 1 } })
\* when the hook sees the document as new or its category as modified
postSaveDecor(store, doc, seen) ==
    IF seen /\ doc.category \in CategoryIds /\ store[doc.category].exists
    THEN [store EXCEPT ![doc.category].decorCount = @ + 1]
    ELSE store

\* schema validation of the paths being saved: stock has min 0
decorInvalid(doc, paths) == "stock" \in paths /\ doc.stock < 0

\* createDecor: const categoryExists = await Category.findById(category)
createDecorFind(r) ==
    /\ r.op = "createDecor" /\ r.pc = "ctrl"
    /\ UNCHANGED <<accountVars, catalogVars>>
    /\ IF ~CategoryDoc(categories, r.body.category).exists THEN Respond(r, 400)
       ELSE Continue(r, [r EXCEPT !.pc = IF r.body.files > 0 THEN "images" ELSE "save",
                                  !.doc = NewDecor(r.body),
                                  !.modified = DecorPaths \ {"slug"}])

\* createDecor: imageUrls = (await uploadMultipleToCloudinary(files)).map(r => r.url);
\* a failed upload is answered 500 "Failed to upload images"
createDecorImages(r) ==
    /\ r.op = "createDecor" /\ r.pc = "images"
    /\ UNCHANGED <<accountVars, categories, nextCategoryId, decors, nextDecorId>>
    /\ \E uploaded \in BOOLEAN :
          IF ~uploaded THEN assets' = assets /\ Respond(r, 500)
          ELSE /\ assets' = uploadMultipleToCloudinary(assets, r.body.files)
               /\ Continue(r, [r EXCEPT !.pc = "save",
                                        !.doc.images = uploadedUrls(assets, r.body.files)])

\* createDecor: await decor.save() with its hooks.  Whether the post-save hook
\* still sees isNew / isModified("category") is decided by the document library.
createDecorSave(r) ==
    /\ r.op = "createDecor" /\ r.pc = "save"
    /\ nextDecorId <= MaxDecors
    /\ LET doc == preSaveDecor(r.doc, r.modified) IN
       IF decorInvalid(doc, r.modified) \/ slugTaken(decors, DecorIds, doc.slug, 0)
       THEN /\ UNCHANGED <<accountVars, catalogVars>>
            /\ Caught(r, NoToken)
       ELSE /\ decors' = [decors EXCEPT ![nextDecorId] = doc]
            /\ nextDecorId' = nextDecorId + 1
            /\ \E seen \in BOOLEAN : categories' = postSaveDecor(categories, doc, seen)
            /\ UNCHANGED <<accountVars, nextCategoryId, assets>>
            /\ RespondAs(r, [r EXCEPT !.id = nextDecorId], 201)

\* getDecorById: Decor.findOne({ _id: id, status: "active" unless includeInactive })
getDecorById(r) ==
    /\ r.op = "getDecorById" /\ r.pc = "ctrl"
    /\ UNCHANGED <<accountVars, catalogVars>>
    /\ LET decor == DecorDoc(decors, r.id) IN
       IF decor.exists /\ (r.body.includeInactive \/ activeFilter(decor))
       THEN RespondList(r, 200, {r.id})
       ELSE Respond(r, 404)

\* getActiveDecors: Decor.find({ status: "active", category?, featured? })
getActiveDecors(r) ==
    /\ r.op = "getActiveDecors" /\ r.pc = "ctrl"
    /\ UNCHANGED <<accountVars, catalogVars>>
    /\ RespondList(r, 200,
          {d \in DecorIds :
              /\ decors[d].exists /\ activeFilter(decors[d])
              /\ r.body.category # None => decors[d].category = r.body.category[1]
              /\ r.body.featured # Undefined => decors[d].featured = (r.body.featured = "true")})

\* getFeaturedDecors: Decor.find({ status: "active", featured: true })
getFeaturedDecors(r) ==
    /\ r.op = "getFeaturedDecors" /\ r.pc = "ctrl"
    /\ UNCHANGED <<accountVars, catalogVars>>
    /\ RespondList(r, 200,
          {d \in DecorIds : decors[d].exists /\ activeFilter(decors[d]) /\ decors[d].featured})

\* searchDecors: the pipeline matches status "active", then the category given in
\* the query (a string, compared as it is with the stored ObjectId: no document
\* matches), then joins the category ($lookup, $unwind: a decor whose category
\* document is gone drops out)
searchDecors(r) ==
    /\ r.op = "searchDecors" /\ r.pc = "ctrl"
    /\ UNCHANGED <<accountVars, catalogVars>>
    /\ RespondList(r, 200,
          {d \in DecorIds :
              /\ decors[d].exists /\ activeFilter(decors[d])
              /\ r.body.category = None
              /\ CategoryDoc(categories, decors[d].category).exists})

\* getCategoryDecors: 404 without the category, else
\* Decor.find({ category: id, status: "active" })
getCategoryDecors(r) ==
    /\ r.op = "getCategoryDecors" /\ r.pc = "ctrl"
    /\ UNCHANGED <<accountVars, catalogVars>>
    /\ IF ~CategoryDoc(categories, r.id).exists THEN Respond(r, 404)
       ELSE RespondList(r, 200,
               {d \in DecorIds :
                   decors[d].exists /\ decors[d].category = r.id /\ activeFilter(decors[d])})

\* updateDecor: Object.keys(updateData).forEach(key => decor[key] = updateData[key])
UpdatedDecor(decor, body) ==
    [decor EXCEPT !.name = IF body.name # Undefined THEN body.name ELSE @,
                  !.category = IF body.category # None THEN body.category[1] ELSE @,
                  !.price = IF body.price # None THEN body.price[1] ELSE @,
                  !.originalPrice = IF body.originalPrice # None THEN body.originalPrice[1] ELSE @,
                  !.stock = IF body.stock # None THEN body.stock[1] ELSE @,
                  !.status = IF body.status # Undefined THEN body.status ELSE @]

AssignedDecor(r, decor) ==
    LET doc == UpdatedDecor(decor, r.body) IN
    [r EXCEPT !.pc = IF r.body.files > 0 THEN "images" ELSE "save",
              !.doc = doc, !.modified = ChangedPaths(decor, doc, DecorPaths)]

\* updateDecor: const decor = await Decor.findById(id)
updateDecorFind(r) ==
    /\ r.op = "updateDecor" /\ r.pc = "ctrl"
    /\ UNCHANGED <<accountVars, catalogVars>>
    /\ LET decor == DecorDoc(decors, r.id) IN
       IF ~decor.exists THEN Respond(r, 404)
       ELSE IF r.body.category # None
            THEN Continue(r, [r EXCEPT !.pc = "category", !.doc = decor])
       ELSE Continue(r, AssignedDecor(r, decor))

\* updateDecor: const categoryExists = await Category.findById(updateData.category)
updateDecorCategory(r) ==
    /\ r.op = "updateDecor" /\ r.pc = "category"
    /\ UNCHANGED <<accountVars, catalogVars>>
    /\ IF ~CategoryDoc(categories, r.body.category[1]).exists THEN Respond(r, 400)
       ELSE Continue(r, AssignedDecor(r, r.doc))

\* updateDecor: the new files are uploaded; with replaceImages 'true' the old
\* images are deleted from the host and the new URLs replace them, else the new
\* URLs are appended.  A failed upload is answered 500 "Failed to upload images".
updateDecorImages(r) ==
    /\ r.op = "updateDecor" /\ r.pc = "images"
    /\ UNCHANGED <<accountVars, categories, nextCategoryId, decors, nextDecorId>>
    /\ \E uploaded \in BOOLEAN :
          IF ~uploaded THEN assets' = assets /\ Respond(r, 500)
          ELSE LET newImageUrls == uploadedUrls(assets, r.body.files)
                   stored == uploadMultipleToCloudinary(assets, r.body.files)
                   replacing == r.body.replaceImages = "true" /\ r.doc.images # {}
               IN /\ assets' = IF replacing
                                THEN deleteMultipleFromCloudinary(stored, r.doc.images)
                                ELSE stored
                  /\ Continue(r, [r EXCEPT !.pc = "save",
                                           !.doc.images = IF replacing THEN newImageUrls
                                                          ELSE @ \cup newImageUrls,
                                           !.modified = @ \cup {"images"}])

\* decor.save() of a loaded document, with its hooks
SaveDecor(r) ==
    /\ r.pc = "save"
    /\ LET doc == preSaveDecor(r.doc, r.modified)
           paths == r.modified \cup ChangedPaths(r.doc, doc, DecorPaths)
           failed == \/ decorInvalid(doc, paths)
                     \/ paths # {} /\ ~decors[r.id].exists
                     \/ "slug" \in paths /\ slugTaken(decors, DecorIds, doc.slug, r.id)
       IN
       /\ decors' = IF failed THEN decors
                    ELSE [decors EXCEPT ![r.id] = WriteDecor(@, doc, paths)]
       /\ IF failed THEN categories' = categories
          ELSE \E seen \in BOOLEAN :
                  categories' = postSaveDecor(categories, doc, seen /\ "category" \in r.modified)
       /\ UNCHANGED <<accountVars, nextCategoryId, nextDecorId, assets>>
       /\ IF failed THEN Caught(r, NoToken) ELSE Respond(r, 200)

updateDecorSave(r) == r.op = "updateDecor" /\ SaveDecor(r)

\* updateStock: load, set the stock, move the status between active and out_of_stock
StockedDecor(decor, stock) ==
    [decor EXCEPT !.stock = stock,
                  !.status = IF stock = 0 THEN OUT_OF_STOCK
                             ELSE IF @ = OUT_OF_STOCK THEN ACTIVE ELSE @]

updateStockFind(r) ==
    /\ r.op = "updateStock" /\ r.pc = "ctrl"
    /\ UNCHANGED <<accountVars, catalogVars>>
    /\ LET decor == DecorDoc(decors, r.id)
           doc == StockedDecor(decor, r.body.stock[1]) IN
       IF ~decor.exists THEN Respond(r, 404)
       ELSE Continue(r, [r EXCEPT !.pc = "save", !.doc = doc,
                                  !.modified = ChangedPaths(decor, doc, DecorPaths)])

updateStockSave(r) == r.op = "updateStock" /\ SaveDecor(r)

deleteDecorFind(r) ==
    /\ r.op = "deleteDecor" /\ r.pc = "ctrl"
    /\ UNCHANGED <<accountVars, catalogVars>>
    /\ LET decor == DecorDoc(decors, r.id) IN
       IF ~decor.exists THEN Respond(r, 404)
       ELSE Continue(r, [r EXCEPT !.pc = IF decor.images # {} THEN "assets" ELSE "delete",
                                  !.doc = decor])

\* deleteDecor: await deleteMultipleFromCloudinary(decor.images.map(extractPublicIdFromUrl))
deleteDecorAssets(r) ==
    /\ r.op = "deleteDecor" /\ r.pc = "assets"
    /\ assets' = deleteMultipleFromCloudinary(assets, r.doc.images)
    /\ UNCHANGED <<accountVars, categories, nextCategoryId, decors, nextDecorId>>
    /\ Continue(r, [r EXCEPT !.pc = "delete"])

\* deleteDecor: await Decor.findByIdAndDelete(id); a query, so the document
\* deleteOne hook of the schema does not run
deleteDecorDelete(r) ==
    /\ r.op = "deleteDecor" /\ r.pc = "delete"
    /\ decors' = [decors EXCEPT ![r.id] = NoDecor]
    /\ UNCHANGED <<accountVars, categories, nextCategoryId, nextDecorId, assets>>
    /\ Respond(r, 200)

(***************************************************************************)
(* The environment: clients send requests, time passes                     *)
(***************************************************************************)
Cookies == {NoToken} \cup PresentableTokens

\* one client connection: a request is sent once the previous response was read
Idle == inflight = {} /\ last = InitLast

\* ops that create an account or hand out tokens consume model capacity
HasRoom(op) ==
    /\ op = "register" => nextUserId <= MaxUsers
    /\ op \in PublicAuthOps => Cardinality(issued) + 2 <= MaxIssued
    /\ op = "createCategory" => nextCategoryId <= MaxCategories
    /\ op = "createDecor" => nextDecorId <= MaxDecors

UpdateUserBodies ==
    {[NoBody EXCEPT !.role = role, !.isActive = isActive] :
        role \in {Undefined} \cup UserRole, isActive \in {Undefined, "true", "false"}}

ArriveUserOp ==
    /\ Idle
    /\ \E op \in UserOps \ {"updateUser"}, c \in Credentials, id \in 0..MaxUsers :
        Arrival(op, c[1], c[2], id, {NoBody}, NoToken)

ArriveUserListOp ==
    /\ Idle
    /\ \E op \in UserListOps, c \in Credentials :
        Arrival(op, c[1], c[2], 0, {NoBody}, NoToken)

ArriveUpdateUser ==
    /\ Idle
    /\ \E c \in Credentials, id \in 0..MaxUsers :
        Arrival("updateUser", c[1], c[2], id, UpdateUserBodies, NoToken)

ArriveProfileOp ==
    /\ Idle
    /\ \E op \in ProfileOps, c \in Credentials :
        Arrival(op, c[1], c[2], 0, {NoBody}, NoToken)

\* the client reads the response
Deliver ==
    /\ inflight = {} /\ last # InitLast
    /\ last' = InitLast
    /\ UNCHANGED <<users, nextUserId, issued, now, env, inflight, catalogVars>>

ArriveRegister ==
    /\ Idle
    /\ HasRoom("register")
    /\ \E email \in Emails :
        Arrival("register", NoHeader, NoToken, 0,
                {[NoBody EXCEPT !.email = email, !.password = "pw1"]}, NoToken)

ArriveLogin ==
    /\ Idle
    /\ HasRoom("login")
    /\ \E email \in Emails \cup {SuperAdminEmail}, password \in Passwords :
        Arrival("login", NoHeader, NoToken, 0,
                {[NoBody EXCEPT !.email = email, !.password = password]}, NoToken)

ArriveRefresh ==
    /\ Idle
    /\ HasRoom("refreshToken")
    /\ \E refresh \in Cookies :
        Arrival("refreshToken", NoHeader, NoToken, 0, {NoBody}, refresh)

Tick ==
    /\ Idle
    /\ now < MaxTime
    /\ now' = now + 1
    /\ UNCHANGED <<users, nextUserId, issued, env, inflight, last, catalogVars>>

\* the environments the server is started in: the defaults (no refresh secret,
\* JWT_EXPIRE "7d"), and JWT_EXPIRE "24h" with a refresh secret equal to or
\* different from JWT_SECRET
DefaultDeployment == [JWT_REFRESH_SECRET |-> Undefined, JWT_EXPIRE |-> DefaultAccessDays]

Deployments ==
    {[JWT_REFRESH_SECRET |-> Undefined, JWT_EXPIRE |-> DefaultAccessDays],
     [JWT_REFRESH_SECRET |-> JWT_SECRET, JWT_EXPIRE |-> ShortAccessDays],
     [JWT_REFRESH_SECRET |-> OtherSecret, JWT_EXPIRE |-> ShortAccessDays]}

\* the stores after deployment: the createSuperAdmin script has run
StoreInit ==
    /\ users = [u \in UserIds |-> IF u = 1 THEN SuperAdminUser ELSE NoUser]
    /\ nextUserId = 2
    /\ issued = {}
    /\ now = 0
    /\ env \in Deployments
    /\ categories = [c \in CategoryIds |-> NoCategory]
    /\ nextCategoryId = 1
    /\ decors = [d \in DecorIds |-> NoDecor]
    /\ nextDecorId = 1
    /\ assets = NoAssets

Init ==
    /\ StoreInit
    /\ inflight = {}
    /\ last = InitLast

Next ==
    \/ ArriveUserOp
    \/ ArriveUpdateUser
    \/ Deliver
    \/ ArriveProfileOp
    \/ ArriveRegister
    \/ ArriveLogin
    \/ ArriveRefresh
    \/ ArriveUserListOp
    \/ \E r \in inflight : getAllUsers(r)
    \/ \E r \in inflight : getUserStats(r)
    \/ \E r \in inflight : getUserById(r)
    \/ \E r \in inflight : updateUserLoad(r)
    \/ \E r \in inflight : updateUserSave(r)
    \/ \E r \in inflight : deleteUserLoad(r)
    \/ \E r \in inflight : deleteUserDelete(r)
    \/ \E r \in inflight : deactivateUserLoad(r)
    \/ \E r \in inflight : deactivateUserSave(r)
    \/ \E r \in inflight : activateUserLoad(r)
    \/ \E r \in inflight : activateUserSave(r)
    \/ \E r \in inflight : promoteToAdminLoad(r)
    \/ \E r \in inflight : promoteToAdminSave(r)
    \/ \E r \in inflight : demoteFromAdminLoad(r)
    \/ \E r \in inflight : demoteFromAdminSave(r)
    \/ \E r \in inflight : getProfile(r)
    \/ \E r \in inflight : registerFind(r)
    \/ \E r \in inflight : registerSave(r)
    \/ \E r \in inflight : loginFind(r)
    \/ \E r \in inflight : loginSave(r)
    \/ \E r \in inflight : refreshTokenStep(r)
    \/ Tick

Spec == Init /\ [][Next]_vars

(***************************************************************************)
(* Catalog requests                                                        *)
(***************************************************************************)
CreateCategoryBodies == {[name |-> name] : name \in CategoryNames \cup {Undefined}}

UpdateCategoryBodies ==
    {[name |-> name, isActive |-> isActive] :
        name \in CategoryNames \cup {Undefined}, isActive \in {Undefined, "true", "false"}}

CreateDecorBodies ==
    {[name |-> name, category |-> category, price |-> price,
      originalPrice |-> originalPrice, stock |-> stock, json |-> json, files |-> 0] :
        name \in DecorNames, category \in 0..MaxCategories, price \in 1..MaxPrice,
        originalPrice \in {None} \cup {Some(k) : k \in 0..MaxPrice},
        stock \in 0..MaxStock, json \in BOOLEAN}

NoDecorBody == [name |-> Undefined, category |-> None, price |-> None,
                originalPrice |-> None, stock |-> None, status |-> Undefined,
                files |-> 0, replaceImages |-> Undefined]

\* bodies that set the category, the stock and the status, the prices, or the name
UpdateDecorBodies ==
    {[NoDecorBody EXCEPT !.category = Some(category)] : category \in 0..MaxCategories}
    \cup {[NoDecorBody EXCEPT !.stock = stock, !.status = status] :
             stock \in {None} \cup {Some(k) : k \in -1..MaxStock},
             status \in {Undefined} \cup DecorStatus}
    \cup {[NoDecorBody EXCEPT !.price = price, !.originalPrice = originalPrice] :
             price \in {None} \cup {Some(k) : k \in 1..MaxPrice},
             originalPrice \in {None} \cup {Some(k) : k \in 0..MaxPrice}}
    \cup {[NoDecorBody EXCEPT !.name = name] : name \in DecorNames}

UpdateStockBodies == {[stock |-> stock] : stock \in {None} \cup {Some(k) : k \in -1..MaxStock}}

CatalogBodies(op) ==
    IF op = "createCategory" THEN CreateCategoryBodies
    ELSE IF op = "updateCategory" THEN UpdateCategoryBodies
    ELSE IF op = "createDecor" THEN CreateDecorBodies
    ELSE IF op = "updateDecor" THEN UpdateDecorBodies
    ELSE IF op = "updateStock" THEN UpdateStockBodies
    ELSE IF op = "getDecorById" THEN {[includeInactive |-> b] : b \in BOOLEAN}
    ELSE IF op \in {"getActiveDecors", "searchDecors"}
    THEN {[category |-> category, featured |-> featured] :
             category \in {None} \cup {Some(c) : c \in CategoryIds},
             featured \in {Undefined, "true", "false"}}
    ELSE {NoBody}

ArriveCategoryOp ==
    /\ Idle
    /\ \E op \in CategoryOps :
        /\ HasRoom(op)
        /\ \E c \in Credentials, id \in 0..MaxCategories :
            /\ RouteHasId(op) \/ id = 0
            /\ Arrival(op, c[1], c[2], id, CatalogBodies(op), NoToken)

ArriveDecorOp ==
    /\ Idle
    /\ \E op \in DecorOps :
        /\ HasRoom(op)
        /\ \E c \in Credentials, id \in 0..MaxDecors :
            /\ RouteHasId(op) \/ id = 0
            /\ Arrival(op, c[1], c[2], id, CatalogBodies(op), NoToken)

(***************************************************************************)
(* One request against a prepared store.  The stores are states the server *)
(* reaches: the super admin has logged in and a second account has         *)
(* registered at time 0, after which the second account was promoted,      *)
(* deactivated or deleted and an admin created a category and a decor.     *)
(***************************************************************************)
SecondUser == NewUser("a@x.com", hashPassword("pw1"))

PreparedSecondUsers ==
    {NoUser, SecondUser,
     [SecondUser EXCEPT !.isActive = FALSE],
     [SecondUser EXCEPT !.role = ADMIN],
     [SecondUser EXCEPT !.role = ADMIN, !.isActive = FALSE]}

PreparedCategory == [NewCategory("Vases") EXCEPT !.slug = generateSlug("Vases")]

PreparedDecor ==
    [exists |-> TRUE, name |-> "Blue Vase", slug |-> generateSlug("Blue Vase"),
     category |-> 1, price |-> 1, originalPrice |-> 2, stock |-> 1, status |-> ACTIVE,
     featured |-> FALSE, images |-> {}]

\* <<number of categories, number of decors>> already created
PreparedCatalogs == {<<0, 0>>, <<1, 0>>, <<1, 1>>}

RequestInit ==
    /\ env \in Deployments
    /\ now \in 0..MaxTime
    /\ \E second \in PreparedSecondUsers :
          users = [u \in UserIds |->
                     IF u = 1 THEN [SuperAdminUser EXCEPT !.lastLogin = 0]
                     ELSE IF u = 2 THEN second ELSE NoUser]
    /\ nextUserId = 3
    /\ issued = LET super == TokensAt(1, SUPER_ADMIN, 0, env.JWT_EXPIRE)
                    second == TokensAt(2, USER, 0, env.JWT_EXPIRE)
                IN {super.accessToken, super.refreshToken,
                    second.accessToken, second.refreshToken}
    /\ \E catalog \in PreparedCatalogs :
          /\ categories = [c \in CategoryIds |->
                             IF c <= catalog[1] THEN PreparedCategory ELSE NoCategory]
          /\ nextCategoryId = catalog[1] + 1
          /\ decors = [d \in DecorIds |-> IF d <= catalog[2] THEN PreparedDecor ELSE NoDecor]
          /\ nextDecorId = catalog[2] + 1
          /\ assets = NoAssets
    /\ inflight = {}
    /\ last = InitLast

RequestNext ==
    \/ ArriveUserOp
    \/ ArriveUserListOp
    \/ ArriveUpdateUser
    \/ ArriveProfileOp
    \/ ArriveCategoryOp
    \/ ArriveDecorOp
    \/ \E r \in inflight : getAllUsers(r)
    \/ \E r \in inflight : getUserStats(r)
    \/ \E r \in inflight : getUserById(r)
    \/ \E r \in inflight : updateUserLoad(r)
    \/ \E r \in inflight : updateUserSave(r)
    \/ \E r \in inflight : deleteUserLoad(r)
    \/ \E r \in inflight : deleteUserDelete(r)
    \/ \E r \in inflight : deactivateUserLoad(r)
    \/ \E r \in inflight : deactivateUserSave(r)
    \/ \E r \in inflight : activateUserLoad(r)
    \/ \E r \in inflight : activateUserSave(r)
    \/ \E r \in inflight : promoteToAdminLoad(r)
    \/ \E r \in inflight : promoteToAdminSave(r)
    \/ \E r \in inflight : demoteFromAdminLoad(r)
    \/ \E r \in inflight : demoteFromAdminSave(r)
    \/ \E r \in inflight : getProfile(r)
    \/ \E r \in inflight : createCategoryFind(r)
    \/ \E r \in inflight : createCategorySave(r)
    \/ \E r \in inflight : getCategoryById(r)
    \/ \E r \in inflight : updateCategoryFind(r)
    \/ \E r \in inflight : updateCategoryCheck(r)
    \/ \E r \in inflight : updateCategorySave(r)
    \/ \E r \in inflight : deleteCategoryFind(r)
    \/ \E r \in inflight : deleteCategoryCount(r)
    \/ \E r \in inflight : deleteCategoryDelete(r)
    \/ \E r \in inflight : createDecorFind(r)
    \/ \E r \in inflight : createDecorSave(r)
    \/ \E r \in inflight : getDecorById(r)
    \/ \E r \in inflight : updateDecorFind(r)
    \/ \E r \in inflight : updateDecorCategory(r)
    \/ \E r \in inflight : updateDecorSave(r)
    \/ \E r \in inflight : updateStockFind(r)
    \/ \E r \in inflight : updateStockSave(r)
    \/ \E r \in inflight : deleteDecorFind(r)
    \/ \E r \in inflight : deleteDecorDelete(r)

SpecRequest == RequestInit /\ [][RequestNext]_vars

(***************************************************************************)
(* An administrator's session on the category endpoints: the super admin   *)
(* has logged in at time 0 and sends one category write after another.     *)
(***************************************************************************)
AdminToken == TokensAt(1, SUPER_ADMIN, 0, DefaultAccessDays).accessToken

AdminLoggedIn ==
    /\ users = [u \in UserIds |->
                  IF u = 1 THEN [SuperAdminUser EXCEPT !.lastLogin = 0] ELSE NoUser]
    /\ nextUserId = 2
    /\ issued = {AdminToken, TokensAt(1, SUPER_ADMIN, 0, DefaultAccessDays).refreshToken}
    /\ now = 0
    /\ env = DefaultDeployment

AdminCategoryWrite ==
    /\ Idle
    /\ \E op \in CategoryWriteOps :
        /\ HasRoom(op)
        /\ \E id \in 0..MaxCategories :
            /\ RouteHasId(op) \/ id = 0
            /\ Arrival(op, Bearer(AdminToken), NoToken, id, CatalogBodies(op), NoToken)

CategoryInit ==
    /\ AdminLoggedIn
    /\ categories = [c \in CategoryIds |-> NoCategory]
    /\ nextCategoryId = 1
    /\ decors = [d \in DecorIds |-> NoDecor]
    /\ nextDecorId = 1
    /\ assets = NoAssets
    /\ inflight = {}
    /\ last = InitLast

CategoryNext ==
    \/ AdminCategoryWrite
    \/ Deliver
    \/ \E r \in inflight : createCategoryFind(r)
    \/ \E r \in inflight : createCategorySave(r)
    \/ \E r \in inflight : updateCategoryFind(r)
    \/ \E r \in inflight : updateCategoryCheck(r)
    \/ \E r \in inflight : updateCategorySave(r)
    \/ \E r \in inflight : deleteCategoryFind(r)
    \/ \E r \in inflight : deleteCategoryCount(r)
    \/ \E r \in inflight : deleteCategoryDelete(r)

SpecCategory == CategoryInit /\ [][CategoryNext]_vars

(***************************************************************************)
(* An administrator's session on the decor endpoints.  The categories have *)
(* been created, earlier decors have been created and deleted, and the     *)
(* administrator creates a decor and edits it.                             *)
(***************************************************************************)
SessionCategoryName(c) ==
    IF c = 1 THEN "Vases" ELSE IF c = 2 THEN "Wall Art" ELSE "Art (Wall)"

SessionCategory(c) ==
    [NewCategory(SessionCategoryName(c)) EXCEPT !.slug = generateSlug(SessionCategoryName(c))]

\* requests that may raise a decorCount are sent while the counts are below the bound
CountsHaveRoom(op) ==
    op \in {"createDecor", "updateDecor"}
        => \A c \in CategoryIds : categories[c].decorCount < MaxDecorCount

AdminDecorWrite ==
    /\ Idle
    /\ \E op \in DecorWriteOps :
        /\ HasRoom(op)
        /\ CountsHaveRoom(op)
        /\ \E id \in 0..MaxDecors :
            /\ RouteHasId(op) \/ id = 0
            /\ Arrival(op, Bearer(AdminToken), NoToken, id, CatalogBodies(op), NoToken)

DecorInit ==
    /\ AdminLoggedIn
    /\ categories = [c \in CategoryIds |-> SessionCategory(c)]
    /\ nextCategoryId = MaxCategories + 1
    /\ decors = [d \in DecorIds |-> NoDecor]
    /\ nextDecorId = MaxDecors
    /\ assets = NoAssets
    /\ inflight = {}
    /\ last = InitLast

DecorNext ==
    \/ AdminDecorWrite
    \/ Deliver
    \/ \E r \in inflight : createDecorFind(r)
    \/ \E r \in inflight : createDecorSave(r)
    \/ \E r \in inflight : updateDecorFind(r)
    \/ \E r \in inflight : updateDecorCategory(r)
    \/ \E r \in inflight : updateDecorSave(r)
    \/ \E r \in inflight : updateStockFind(r)
    \/ \E r \in inflight : updateStockSave(r)
    \/ \E r \in inflight : deleteDecorFind(r)
    \/ \E r \in inflight : deleteDecorDelete(r)

SpecDecor == DecorInit /\ [][DecorNext]_vars

(***************************************************************************)
(* An administrator's stock edits of one decor.  The decor was created and *)
(* edited before: every status can stand beside every stock, since a decor *)
(* update that gives a status and no stock stores that status as given.    *)
(***************************************************************************)
StockEditBodies(op) ==
    IF op = "updateStock" THEN UpdateStockBodies
    ELSE {b \in UpdateDecorBodies :
             b.name = Undefined /\ b.price = None /\ b.originalPrice = None}

AdminStockEdit ==
    /\ Idle
    /\ \E op \in {"updateStock", "updateDecor"} :
        /\ HasRoom(op)
        /\ CountsHaveRoom(op)
        /\ \E id \in 0..MaxDecors :
            Arrival(op, Bearer(AdminToken), NoToken, id, StockEditBodies(op), NoToken)

StockInit ==
    /\ AdminLoggedIn
    /\ categories = [c \in CategoryIds |-> SessionCategory(c)]
    /\ nextCategoryId = MaxCategories + 1
    /\ \E status \in DecorStatus, stock \in 0..MaxStock :
          decors = [d \in DecorIds |->
                      IF d = 1 THEN [PreparedDecor EXCEPT !.status = status, !.stock = stock]
                      ELSE NoDecor]
    /\ nextDecorId = 2
    /\ assets = NoAssets
    /\ inflight = {}
    /\ last = InitLast

StockNext ==
    \/ AdminStockEdit
    \/ Deliver
    \/ \E r \in inflight : updateDecorFind(r)
    \/ \E r \in inflight : updateDecorCategory(r)
    \/ \E r \in inflight : updateDecorSave(r)
    \/ \E r \in inflight : updateStockFind(r)
    \/ \E r \in inflight : updateStockSave(r)

SpecStock == StockInit /\ [][StockNext]_vars

(***************************************************************************)
(* The public authentication endpoints.  The server starts on a fresh      *)
(* database, after the createSuperAdmin script, or with a second account   *)
(* that registered at time 0 and has since been deactivated or not.        *)
(***************************************************************************)
\* logout reads neither the body nor the cookies of the request
ArriveLogout ==
    /\ Idle
    /\ Arrival("logout", NoHeader, NoToken, 0, {NoBody}, NoToken)

\* <<accounts in the store, the second account>>
PreparedAccounts ==
    {<<0, NoUser>>, <<1, NoUser>>, <<2, SecondUser>>,
     <<2, [SecondUser EXCEPT !.isActive = FALSE]>>}

AuthInit ==
    /\ env \in Deployments
    /\ now \in 0..MaxTime
    /\ \E accounts \in PreparedAccounts :
          /\ users = [u \in UserIds |->
                        IF u = 1 /\ accounts[1] >= 1 THEN SuperAdminUser
                        ELSE IF u = 2 /\ accounts[1] = 2 THEN accounts[2]
                        ELSE NoUser]
          /\ nextUserId = accounts[1] + 1
          /\ issued = IF accounts[1] = 2
                      THEN LET second == TokensAt(2, USER, 0, env.JWT_EXPIRE)
                           IN {second.accessToken, second.refreshToken}
                      ELSE {}
    /\ categories = [c \in CategoryIds |-> NoCategory]
    /\ nextCategoryId = 1
    /\ decors = [d \in DecorIds |-> NoDecor]
    /\ nextDecorId = 1
    /\ assets = NoAssets
    /\ inflight = {}
    /\ last = InitLast

AuthNext ==
    \/ ArriveRegister
    \/ ArriveLogin
    \/ ArriveRefresh
    \/ ArriveLogout
    \/ Deliver
    \/ \E r \in inflight : registerFind(r)
    \/ \E r \in inflight : registerSave(r)
    \/ \E r \in inflight : loginFind(r)
    \/ \E r \in inflight : loginSave(r)
    \/ \E r \in inflight : refreshTokenStep(r)
    \/ \E r \in inflight : logout(r)

SpecAuth == AuthInit /\ [][AuthNext]_vars

(***************************************************************************)
(* Register requests served at once: up to MaxInflight are in flight, and  *)
(* their database operations interleave.                                   *)
(***************************************************************************)
PostRegister ==
    /\ Cardinality(inflight) < MaxInflight
    /\ nextUserId + Cardinality({q \in inflight : q.op = "register"}) <= MaxUsers
    /\ \E email \in Emails \cup {SuperAdminEmail}, password \in Passwords :
        LET body == [NoBody EXCEPT !.email = email, !.password = password] IN
        /\ NewRequest("register", NoIdentity, 0, body, NoToken) \notin inflight
        /\ Arrival("register", NoHeader, NoToken, 0, {body}, NoToken)

RegisterNext ==
    \/ PostRegister
    \/ \E r \in inflight : registerFind(r)
    \/ \E r \in inflight : registerSave(r)

SpecRegister == AuthInit /\ [][RegisterNext]_vars

(***************************************************************************)
(* authorize(...roles) applied to every identity and every role set        *)
(***************************************************************************)
Identities ==
    {NoIdentity} \cup
    {[id |-> id, email |-> email, role |-> role] :
        id \in UserIds, email \in Emails \cup {SuperAdminEmail}, role \in UserRole}

AuthorizeInit ==
    /\ StoreInit
    /\ inflight = {}
    /\ \E user \in Identities, roles \in SUBSET UserRole :
          last = [InitLast EXCEPT !.phase = "input", !.caller = user, !.authzRoles = roles]

AuthorizeApply ==
    /\ last.phase = "input"
    /\ last' = [last EXCEPT !.phase = "applied",
                            !.authzOut = authorize(last.authzRoles, last.caller)]
    /\ UNCHANGED <<accountVars, catalogVars, inflight>>

SpecAuthorize == AuthorizeInit /\ [][AuthorizeApply]_vars

(***************************************************************************)
(* The list endpoints (getAllUsers, getAllCategories, getCategoryDecors,   *)
(* getAllDecors, getActiveDecors, searchDecors).  Each reads page and      *)
(* limit from the query, skips and limits the sorted, filtered collection  *)
(* and computes the pagination block.  The collection is items 1..n, item  *)
(* i standing at position i of the sort order.                             *)
(***************************************************************************)
\* parseInt(req.query.x as string) || fallback: an absent value is NaN, and
\* NaN and 0 are falsy
queryInt(value, fallback) ==
    IF value = None THEN fallback
    ELSE IF value[1] = 0 THEN fallback
    ELSE value[1]

\* a skip that starts at the page's end, as (page * limit) would
skipAfterPage(page, limit) == page * limit

\* const skip = (page - 1) * limit
skipBefore(page, limit) == (page - 1) * limit

\* cursor.skip(k): the sequence without its first k items
RECURSIVE cursorSkip(_, _)
cursorSkip(items, k) ==
    IF k <= 0 \/ items = <<>> THEN items ELSE cursorSkip(Tail(items), k - 1)

\* cursor.limit(k): the first k items
RECURSIVE cursorLimit(_, _)
cursorLimit(items, k) ==
    IF k <= 0 \/ items = <<>> THEN <<>> ELSE <<Head(items)>> \o cursorLimit(Tail(items), k - 1)

\* Math.ceil(total / limit), limit >= 1
mathCeilDiv(total, limit) ==
    IF total % limit = 0 THEN total \div limit ELSE (total \div limit) + 1

\* the data of the 200 answer of a list endpoint
listPage(items, pageQuery, limitQuery) ==
    LET page == queryInt(pageQuery, DefaultPage)
        limit == queryInt(limitQuery, DefaultLimit)
        skip == skipBefore(page, limit)
        total == Len(items)
        totalPages == mathCeilDiv(total, limit) IN
    [items |-> cursorLimit(cursorSkip(items, skip), limit),
     currentPage |-> page, totalPages |-> totalPages, total |-> total,
     hasNextPage |-> page < totalPages, hasPrevPage |-> page > 1]

SortedCollection(n) == [i \in 1..n |-> i]

NoPage == [items |-> <<>>, currentPage |-> 0, totalPages |-> 0, total |-> 0,
           hasNextPage |-> FALSE, hasPrevPage |-> FALSE]

\* a list request: the validated query gives page and limit (each at least 1) or
\* leaves them out
ListInit ==
    /\ StoreInit
    /\ inflight = {}
    /\ \E n \in 0..MaxItems,
          page \in {None} \cup {Some(p) : p \in 1..MaxPage},
          limit \in {None} \cup {Some(l) : l \in 1..MaxLimit} :
          last = [phase |-> "query", n |-> n, page |-> page, limit |-> limit, out |-> NoPage]

ListRespond ==
    /\ last.phase = "query"
    /\ last' = [last EXCEPT !.phase = "answered",
                            !.out = listPage(SortedCollection(last.n), last.page, last.limit)]
    /\ UNCHANGED <<accountVars, catalogVars, inflight>>

SpecList == ListInit /\ [][ListRespond]_vars

(***************************************************************************)
(* Public reads of the decors.  The store holds decors of every status,    *)
(* featured or not, as the administrators' updates can leave them.         *)
(***************************************************************************)
ReadDecorName(d) == IF d = 1 THEN "blue vase" ELSE IF d = 2 THEN "vases" ELSE "wall-art"

ReadDecor(d, category, status, featured) ==
    [PreparedDecor EXCEPT !.name = ReadDecorName(d), !.slug = generateSlug(ReadDecorName(d)),
                          !.category = category, !.status = status, !.featured = featured]

PublicDecorReads == DecorReadOps \cup DecorListOps

ArriveDecorRead ==
    /\ Idle
    /\ \E op \in PublicDecorReads, hdr \in {NoHeader, Bearer(AdminToken)}, id \in 0..MaxDecors :
        /\ RouteHasId(op) \/ id = 0
        /\ Arrival(op, hdr, NoToken, id, CatalogBodies(op), NoToken)

ReadInit ==
    /\ AdminLoggedIn
    /\ categories = [c \in CategoryIds |-> SessionCategory(c)]
    /\ nextCategoryId = MaxCategories + 1
    /\ \E pick \in [DecorIds -> {<<0, ACTIVE, FALSE>>}
                                  \cup ({1, MaxCategories} \X DecorStatus \X BOOLEAN)] :
          decors = [d \in DecorIds |->
                      IF pick[d][1] = 0 THEN NoDecor
                      ELSE ReadDecor(d, pick[d][1], pick[d][2], pick[d][3])]
    /\ nextDecorId = MaxDecors + 1
    /\ assets = NoAssets
    /\ inflight = {}
    /\ last = InitLast

ReadNext ==
    \/ ArriveDecorRead
    \/ Deliver
    \/ \E r \in inflight : getDecorById(r)
    \/ \E r \in inflight : getActiveDecors(r)
    \/ \E r \in inflight : getFeaturedDecors(r)
    \/ \E r \in inflight : searchDecors(r)
    \/ \E r \in inflight : getCategoryDecors(r)

SpecRead == ReadInit /\ [][ReadNext]_vars

(***************************************************************************)
(* The token extraction of the two authentication middlewares, applied to  *)
(* every pair of Authorization header and token cookie a client can send.  *)
(***************************************************************************)
ExtractInit ==
    /\ users = [u \in UserIds |->
                  IF u = 1 THEN [SuperAdminUser EXCEPT !.lastLogin = 0] ELSE NoUser]
    /\ nextUserId = 2
    /\ issued = {AdminToken, TokensAt(1, SUPER_ADMIN, 0, DefaultAccessDays).refreshToken}
    /\ now \in 0..MaxTime
    /\ env \in Deployments
    /\ categories = [c \in CategoryIds |-> NoCategory]
    /\ nextCategoryId = 1
    /\ decors = [d \in DecorIds |-> NoDecor]
    /\ nextDecorId = 1
    /\ assets = NoAssets
    /\ inflight = {}
    /\ \E c \in Credentials, mw \in {"authenticate", "optionalAuth"} :
          last = [phase |-> "input", middleware |-> mw, hdr |-> c[1], cookieToken |-> c[2],
                  token |-> NoToken, out |-> NoAuthOut]

ExtractApply ==
    /\ last.phase = "input"
    /\ last' = [last EXCEPT
                  !.phase = "applied",
                  !.token = extractToken(last.hdr, last.cookieToken),
                  !.out = IF last.middleware = "authenticate"
                          THEN authenticate(last.hdr, last.cookieToken)
                          ELSE optionalAuth(last.hdr, last.cookieToken)]
    /\ UNCHANGED <<accountVars, catalogVars, inflight>>

SpecExtract == ExtractInit /\ [][ExtractApply]_vars

(***************************************************************************)
(* Concurrent catalog writes of administrators: decors are created and     *)
(* moved between categories while categories are deleted.  Every await of  *)
(* a controller is a point where the other request's steps may run.        *)
(***************************************************************************)
RaceDecor == [PreparedDecor EXCEPT !.name = "vases", !.slug = generateSlug("vases")]

RaceBodies(op) ==
    IF op = "createDecor"
    THEN {[name |-> "Blue Vase", category |-> c, price |-> 1, originalPrice |-> None,
           stock |-> 1, json |-> TRUE, files |-> 0] : c \in CategoryIds}
    ELSE IF op = "updateDecor"
    THEN {[NoDecorBody EXCEPT !.category = Some(c)] : c \in CategoryIds}
    ELSE {NoBody}

AdminRaceWrite ==
    /\ Cardinality(inflight) < MaxInflight
    /\ \E op \in {"createDecor", "updateDecor", "deleteCategory"} :
        /\ op = "createDecor" =>
              nextDecorId + Cardinality({q \in inflight : q.op = "createDecor"}) <= MaxDecors
        /\ CountsHaveRoom(op)
        /\ \E id \in 1..MaxCategories :
            /\ op = "createDecor" => id = 1
            /\ op = "updateDecor" => id = 1
            /\ Arrival(op, Bearer(AdminToken), NoToken, IF op = "createDecor" THEN 0 ELSE id,
                       RaceBodies(op), NoToken)

RaceInit ==
    /\ AdminLoggedIn
    /\ categories = [c \in CategoryIds |-> SessionCategory(c)]
    /\ nextCategoryId = MaxCategories + 1
    /\ decors = [d \in DecorIds |-> IF d = 1 THEN RaceDecor ELSE NoDecor]
    /\ nextDecorId = 2
    /\ assets = NoAssets
    /\ inflight = {}
    /\ last = InitLast

RaceNext ==
    \/ AdminRaceWrite
    \/ \E r \in inflight : createDecorFind(r)
    \/ \E r \in inflight : createDecorSave(r)
    \/ \E r \in inflight : updateDecorFind(r)
    \/ \E r \in inflight : updateDecorCategory(r)
    \/ \E r \in inflight : updateDecorSave(r)
    \/ \E r \in inflight : deleteCategoryFind(r)
    \/ \E r \in inflight : deleteCategoryCount(r)
    \/ \E r \in inflight : deleteCategoryDelete(r)

SpecRace == RaceInit /\ [][RaceNext]_vars

(***************************************************************************)
(* An administrator creates decors and updates them, one request at a      *)
(* time; no decor is deleted.                                              *)
(***************************************************************************)
AdminCreateOrUpdate ==
    /\ Idle
    /\ \E op \in {"createDecor", "updateDecor"} :
        /\ HasRoom(op)
        /\ CountsHaveRoom(op)
        /\ \E id \in 0..MaxDecors :
            /\ RouteHasId(op) \/ id = 0
            /\ Arrival(op, Bearer(AdminToken), NoToken, id, CatalogBodies(op), NoToken)

CountNext ==
    \/ AdminCreateOrUpdate
    \/ Deliver
    \/ \E r \in inflight : createDecorFind(r)
    \/ \E r \in inflight : createDecorSave(r)
    \/ \E r \in inflight : updateDecorFind(r)
    \/ \E r \in inflight : updateDecorCategory(r)
    \/ \E r \in inflight : updateDecorSave(r)

SpecCount == DecorInit /\ [][CountNext]_vars

(***************************************************************************)
(* Concurrent patch-stock requests of administrators on one decor whose    *)
(* status is active or out_of_stock.  Each request reads the document and  *)
(* later saves it, writing the paths it changed.                           *)
(***************************************************************************)
AdminPatchStock ==
    /\ Cardinality(inflight) < MaxInflight
    /\ Arrival("updateStock", Bearer(AdminToken), NoToken, 1, UpdateStockBodies, NoToken)

PatchInit ==
    /\ AdminLoggedIn
    /\ categories = [c \in CategoryIds |-> SessionCategory(c)]
    /\ nextCategoryId = MaxCategories + 1
    /\ \E status \in {ACTIVE, OUT_OF_STOCK}, stock \in 0..MaxStock :
          decors = [d \in DecorIds |->
                      IF d = 1 THEN [PreparedDecor EXCEPT !.status = status, !.stock = stock]
                      ELSE NoDecor]
    /\ nextDecorId = 2
    /\ assets = NoAssets
    /\ inflight = {}
    /\ last = InitLast

PatchNext ==
    \/ AdminPatchStock
    \/ \E r \in inflight : updateStockFind(r)
    \/ \E r \in inflight : updateStockSave(r)

SpecPatch == PatchInit /\ [][PatchNext]_vars

(***************************************************************************)
(* Roles through the API: accounts register, edit their profile, and the   *)
(* administrators edit, promote and demote them.  Request bodies carry a   *)
(* role field wherever a client can put one.                               *)
(***************************************************************************)
\* updateProfile: const user = await User.findById(userId); only firstName and
\* lastName are read from the body and assigned
updateProfileLoad(r) ==
    /\ r.op = "updateProfile" /\ r.pc = "ctrl"
    /\ UNCHANGED <<users, nextUserId, issued, now, env, catalogVars>>
    /\ LET user == findById(r.user.id) IN
       IF ~user.exists THEN Respond(r, 404)
       ELSE Continue(r, Loaded(r, user, user))

updateProfileSave(r) == r.op = "updateProfile" /\ SaveStep(r)

RoleBodies == {[NoBody EXCEPT !.role = role] : role \in {Undefined} \cup UserRole}

ArriveRegisterWithRole ==
    /\ Idle
    /\ HasRoom("register")
    /\ \E email \in Emails :
        Arrival("register", NoHeader, NoToken, 0,
                {[b EXCEPT !.email = email, !.password = "pw1"] : b \in RoleBodies}, NoToken)

ArriveUpdateProfile ==
    /\ Idle
    /\ \E c \in Credentials :
        Arrival("updateProfile", c[1], c[2], 0, RoleBodies, NoToken)

ArriveRoleChange ==
    /\ Idle
    /\ \E op \in UserSuperOps, c \in Credentials, id \in 0..MaxUsers :
        Arrival(op, c[1], c[2], id, {NoBody}, NoToken)

RoleInit ==
    /\ AdminLoggedIn
    /\ categories = [c \in CategoryIds |-> NoCategory]
    /\ nextCategoryId = 1
    /\ decors = [d \in DecorIds |-> NoDecor]
    /\ nextDecorId = 1
    /\ assets = NoAssets
    /\ inflight = {}
    /\ last = InitLast

RoleNext ==
    \/ ArriveRegisterWithRole
    \/ ArriveUpdateProfile
    \/ ArriveUpdateUser
    \/ ArriveRoleChange
    \/ Deliver
    \/ \E r \in inflight : registerFind(r)
    \/ \E r \in inflight : registerSave(r)
    \/ \E r \in inflight : updateProfileLoad(r)
    \/ \E r \in inflight : updateProfileSave(r)
    \/ \E r \in inflight : updateUserLoad(r)
    \/ \E r \in inflight : updateUserSave(r)
    \/ \E r \in inflight : promoteToAdminLoad(r)
    \/ \E r \in inflight : promoteToAdminSave(r)
    \/ \E r \in inflight : demoteFromAdminLoad(r)
    \/ \E r \in inflight : demoteFromAdminSave(r)

SpecRole == RoleInit /\ [][RoleNext]_vars

(***************************************************************************)
(* An administrator's session on decors with images: a decor with one      *)
(* hosted image exists, and decors are created, updated and deleted with   *)
(* and without uploaded files.                                             *)
(***************************************************************************)
ImageBodies(op) ==
    IF op = "createDecor"
    THEN {[name |-> name, category |-> 1, price |-> 1, originalPrice |-> None,
           stock |-> 1, json |-> FALSE, files |-> files] :
             name \in DecorNames, files \in 0..1}
    ELSE IF op = "updateDecor"
    THEN {[NoDecorBody EXCEPT !.name = name, !.files = files, !.replaceImages = replace] :
             name \in {Undefined} \cup DecorNames, files \in 0..1,
             replace \in {Undefined, "true"}}
    ELSE {NoBody}

AdminImageWrite ==
    /\ Idle
    /\ \E a \in AssetIds : assets[a] = "absent"
    /\ \E op \in {"createDecor", "updateDecor", "deleteDecor"} :
        /\ HasRoom(op)
        /\ \E id \in 0..MaxDecors :
            /\ RouteHasId(op) \/ id = 0
            /\ Arrival(op, Bearer(AdminToken), NoToken, id, ImageBodies(op), NoToken)

ImageInit ==
    /\ AdminLoggedIn
    /\ categories = [c \in CategoryIds |->
                       IF c = 1 THEN [PreparedCategory EXCEPT !.decorCount = 1]
                       ELSE NoCategory]
    /\ nextCategoryId = 2
    /\ decors = [d \in DecorIds |->
                   IF d = 1 THEN [RaceDecor EXCEPT !.images = {1}] ELSE NoDecor]
    /\ nextDecorId = 2
    /\ assets = [NoAssets EXCEPT ![1] = "hosted"]
    /\ inflight = {}
    /\ last = InitLast

ImageNext ==
    \/ AdminImageWrite
    \/ Deliver
    \/ \E r \in inflight : createDecorFind(r)
    \/ \E r \in inflight : createDecorImages(r)
    \/ \E r \in inflight : createDecorSave(r)
    \/ \E r \in inflight : updateDecorFind(r)
    \/ \E r \in inflight : updateDecorImages(r)
    \/ \E r \in inflight : updateDecorSave(r)
    \/ \E r \in inflight : deleteDecorFind(r)
    \/ \E r \in inflight : deleteDecorAssets(r)
    \/ \E r \in inflight : deleteDecorDelete(r)

SpecImage == ImageInit /\ [][ImageNext]_vars

(***************************************************************************)
(* Claims                                                                  *)
(***************************************************************************)
UserGuardedOps == {"deleteUser", "deactivateUser", "demoteFromAdmin"}

\* C1: after any sequence of user-management requests the account created as
\* super_admin (id 1) still exists, is still active and still has role super_admin.
C1_SuperAdminPreserved ==
    users[1].exists /\ users[1].isActive /\ users[1].role = SUPER_ADMIN

\* C2: deleteUser, deactivateUser and demoteFromAdmin aimed at an existing
\* super_admin account are answered 403 for a caller of any role, and the step
\* that answers leaves the target account as it was.
C2_SuperAdminTarget403 ==
    (/\ last.op \in UserGuardedOps
     /\ last.caller # NoIdentity
     /\ last.before.exists /\ last.before.role = SUPER_ADMIN)
    => /\ last.after = last.before
       /\ IF last.phase = "arrival" /\ last.reached
          THEN last.status = 0
          ELSE last.status = 403

C2_Witness ==
    /\ last.op = "deactivateUser" /\ last.phase = "ctrl"
    /\ last.caller.role = ADMIN
    /\ last.before.exists /\ last.before.role = SUPER_ADMIN
    /\ last.status = 403

\* C3: a step that changes the role of an existing user belongs to a request
\* whose authenticated caller is a super_admin.
C3_RoleChangeNeedsSuperAdmin ==
    (/\ last.phase = "ctrl" /\ last.op \in UserOps \cup PublicAuthOps \cup ProfileOps
     /\ last.before.exists /\ last.after.exists
     /\ last.before.role # last.after.role)
    => last.caller.role = SUPER_ADMIN

\* C4: authenticate calls next only for a supplied, server-signed, unexpired token
\* whose user exists and is active; otherwise it answers 401 and does not call
\* next; it calls next once or sends one response, never both and never neither.
TokenGood(t) ==
    t.supplied /\ t.issuedByServer /\ ~t.expired /\ t.userExists /\ t.userActive

C4_AuthenticateGate ==
    (last.phase = "arrival" /\ last.auth = "authenticate")
    => /\ last.authOut.nextCalls = 1 => TokenGood(last.tok)
       /\ ~TokenGood(last.tok) => last.authOut.nextCalls = 0 /\ last.authOut.sent = <<401>>
       /\ last.authOut.nextCalls + Len(last.authOut.sent) = 1

C4_Witness ==
    /\ last.phase = "arrival" /\ last.auth = "authenticate"
    /\ last.authOut.nextCalls = 1 /\ last.authOut.sent = <<>>
    /\ TokenGood(last.tok)

\* C5: optionalAuth never rejects: it calls next once and sends nothing, and it
\* attaches an identity exactly when the token it extracts was supplied, verifies
\* and names a user that exists and is active; otherwise the request goes on
\* anonymous.
C5_OptionalAuthNeverRejects ==
    (last.phase = "arrival" /\ last.auth = "optionalAuth")
    => /\ last.authOut.nextCalls = 1 /\ last.authOut.sent = <<>>
       /\ last.status \notin {401, 403}
       /\ last.authOut.user # NoIdentity <=> TokenGood(last.tok)
       /\ TokenGood(last.tok) => /\ last.authOut.user.id = last.tok.sub
                                 /\ last.authOut.user.role = last.tok.storedRole
       /\ last.caller = last.authOut.user

C5_Witness ==
    /\ last.phase = "arrival" /\ last.auth = "optionalAuth"
    /\ last.tok.supplied /\ last.tok.issuedByServer /\ ~last.tok.expired
    /\ last.tok.userExists /\ ~last.tok.userActive
    /\ last.authOut.user = NoIdentity /\ last.reached

\* C6: authorize(roles) answers 401 without an identity, 403 when the identity's
\* role is not in roles, and calls next otherwise; adminOnly admits exactly admin
\* and super_admin, superAdminOnly exactly super_admin.
C6_AuthorizeDecides ==
    last.phase = "applied"
    => LET user == last.caller
           roles == last.authzRoles
           out == last.authzOut IN
       /\ user = NoIdentity => out = [nextCalls |-> 0, sent |-> <<401>>]
       /\ (user # NoIdentity /\ user.role \notin roles)
            => out = [nextCalls |-> 0, sent |-> <<403>>]
       /\ (user # NoIdentity /\ user.role \in roles)
            => out = [nextCalls |-> 1, sent |-> <<>>]
       /\ roles = adminOnly
            => (out.nextCalls = 1 <=> user.role \in {"admin", "super_admin"})
       /\ roles = superAdminOnly
            => (out.nextCalls = 1 <=> user.role = "super_admin")

C6_Witness ==
    /\ last.phase = "applied"
    /\ last.authzRoles = adminOnly
    /\ last.caller # NoIdentity /\ last.caller.role = USER
    /\ last.authzOut = [nextCalls |-> 0, sent |-> <<403>>]

\* C7: the controllers of the category and decor writes and of user management
\* are entered only by requests that authenticate admitted and whose stored role
\* at that time is admin or super_admin; never by an anonymous request or by a
\* plain user.
GuardedOps == CategoryWriteOps \cup DecorWriteOps \cup UserOps \cup UserListOps

C7_GuardedControllers ==
    /\ \A r \in inflight :
          r.op \in GuardedOps
          => r.user # NoIdentity /\ r.user.role \in {"admin", "super_admin"}
    /\ (last.op \in GuardedOps /\ last.phase = "arrival" /\ last.reached)
          => /\ last.auth = "authenticate" /\ last.authOut.nextCalls = 1
             /\ TokenGood(last.tok)
             /\ last.tok.storedRole \in {"admin", "super_admin"}
             /\ last.authzOut.nextCalls = 1
    /\ (last.op \in GuardedOps /\ last.phase = "ctrl")
          => last.caller.role \in {"admin", "super_admin"}

C7_Witness ==
    /\ last.op = "createDecor" /\ last.phase = "arrival"
    /\ TokenGood(last.tok) /\ last.tok.storedRole = USER
    /\ ~last.reached /\ last.status = 403
    /\ inflight = {}

\* C8: the identity attached by authenticate is the stored user's at request time:
\* a verifying token of a deleted or deactivated user is answered 401, the attached
\* role is the stored role whatever the token claims, and a user whose stored role
\* is 'user' is answered 403 on the admin-only and super-admin-only routes.
C8_IdentityFromStore ==
    (/\ last.phase = "arrival" /\ last.auth = "authenticate"
     /\ last.tok.supplied /\ last.tok.issuedByServer /\ ~last.tok.expired)
    => /\ (~last.tok.userExists \/ ~last.tok.userActive)
            => last.status = 401 /\ ~last.reached
       /\ (last.tok.userExists /\ last.tok.userActive)
            => /\ last.caller.id = last.tok.sub
               /\ last.caller.role = last.tok.storedRole
               /\ (last.tok.storedRole = USER /\ last.authzRoles # {})
                    => last.status = 403 /\ ~last.reached

C8_Witness ==
    /\ last.phase = "arrival" /\ last.auth = "authenticate"
    /\ last.tok.supplied /\ last.tok.issuedByServer /\ ~last.tok.expired
    /\ last.tok.userExists /\ ~last.tok.userActive
    /\ last.status = 401

\* C9: a refresh token handed out by register or login, presented in the
\* refreshToken cookie before it expires while its user exists and is active,
\* is answered 200.
C9_RefreshAccepted ==
    (/\ last.op = "refreshToken" /\ last.phase = "ctrl"
     /\ last.tok.kind = "refresh" /\ last.tok.issuedByServer /\ ~last.tok.expired
     /\ last.tok.userExists /\ last.tok.userActive)
    => last.status = 200

\* C10: authenticate does not admit a request whose credential is a refresh
\* token, and the refresh-token endpoint does not accept an access token.
C10_TokenKindsSeparated ==
    /\ (last.phase = "arrival" /\ last.auth = "authenticate" /\ last.tok.kind = "refresh")
        => last.authOut.nextCalls = 0
    /\ (last.op = "refreshToken" /\ last.phase = "ctrl" /\ last.tok.kind = "access")
        => last.status # 200

\* C11: a successful register, login or refresh answer carries the access token
\* in its body and the refresh token only in the refreshToken cookie (HTTP-only,
\* same-site strict, 7-day max age); an unsuccessful one sets no cookie and
\* carries no token; logout answers by clearing the refreshToken cookie.
C11_TokenTransport ==
    /\ (last.phase = "ctrl" /\ last.op \in PublicAuthOps /\ last.status \in {200, 201})
         => /\ \E t \in last.resTokens : t.kind = "access" /\ t.sub = last.cookie.value.sub
            /\ \A t \in last.resTokens : t.kind # "refresh"
            /\ last.cookie.action = "set" /\ last.cookie.name = "refreshToken"
            /\ last.cookie.value.kind = "refresh"
            /\ last.cookie.httpOnly /\ last.cookie.sameSite = "strict"
            /\ last.cookie.maxAge = 7
    /\ (last.op \in PublicAuthOps /\ last.status \notin {200, 201})
         => last.cookie = NoCookie /\ last.resTokens = {}
    /\ (last.phase = "ctrl" /\ last.op = "logout")
         => /\ last.status = 200 /\ last.resTokens = {}
            /\ last.cookie.action = "clear" /\ last.cookie.name = "refreshToken"

C11_Witness ==
    /\ last.phase = "ctrl" /\ last.op = "refreshToken" /\ last.status = 200
    /\ last.cookie.action = "set" /\ last.cookie.value.kind = "refresh"
    /\ last.resTokens # {}

\* C12: a login with the correct password of a deactivated account is answered
\* 403 (not 401), with no token in the body and no cookie, and the step hands out
\* no token and leaves the account, its last-login time included, as it was.
C12_DeactivatedLogin403 ==
    /\ [](
         (/\ last.phase = "ctrl" /\ last.op = "login" /\ last.creds = "valid"
          /\ last.before.exists /\ ~last.before.isActive)
         => /\ last.status = 403
            /\ last.resTokens = {} /\ last.cookie = NoCookie
            /\ last.after = last.before)
    /\ [][(last'.op = "login" /\ last'.status = 403)
            => issued' = issued /\ users' = users]_vars

C12_Witness ==
    /\ last.phase = "ctrl" /\ last.op = "login" /\ last.creds = "valid"
    /\ last.before.exists /\ ~last.before.isActive
    /\ last.status = 403 /\ last.before.lastLogin = last.after.lastLogin

\* C13: a register request whose email is found in the store is answered 400 and
\* creates no user; in every state, also after register requests for one email
\* have interleaved, no two users hold the same email.
C13_EmailUnique ==
    /\ [](\A u, v \in UserIds :
            (users[u].exists /\ users[v].exists /\ users[u].email = users[v].email)
            => u = v)
    /\ [][\A r \in inflight :
            (/\ r.op = "register" /\ r.pc = "ctrl" /\ r \notin inflight'
             /\ findOneByEmail(r.body.email) # 0)
            => /\ last'.op = "register" /\ last'.status = 400
               /\ users' = users /\ nextUserId' = nextUserId]_vars

\* two registers for one email interleaved: the second insert was refused
C13_Witness ==
    /\ last.phase = "ctrl" /\ last.op = "register" /\ last.status = 500
    /\ \E u \in UserIds : users[u].exists /\ users[u].email \in Emails

\* C14: a createCategory or updateCategory request whose name equals, ignoring
\* letter case, the name of another existing category is answered 400 and the
\* answering step leaves the category store as it was.
NameClash(r) ==
    /\ r.body.name # Undefined
    /\ r.op = "updateCategory" => CategoryDoc(categories, r.id).exists
    /\ \E c \in CategoryIds :
          /\ categories[c].exists
          /\ r.op = "updateCategory" => c # r.id
          /\ toLowerCase(categories[c].name) = toLowerCase(r.body.name)

C14_DuplicateCategoryName400 ==
    [][\A r \in inflight :
          (/\ r.op \in {"createCategory", "updateCategory"}
           /\ NameClash(r)
           /\ r \notin inflight' /\ last'.status # 0)
          => last'.status = 400 /\ categories' = categories]_vars

\* C15: deleteCategory answers 404 for a missing category; for an existing one
\* it answers 400 and deletes nothing while a decor references it, and deletes
\* the category and answers 200 when none does.
C15_DeleteCategoryGuard ==
    (last.op = "deleteCategory" /\ last.phase = "ctrl" /\ last.status # 0)
    => IF ~last.before.exists
       THEN last.status = 404 /\ last.after = last.before
       ELSE IF countDecors(last.id) > 0
       THEN last.status = 400 /\ last.after = last.before
       ELSE last.status = 200 /\ ~last.after.exists

C15_Witness ==
    /\ last.op = "deleteCategory" /\ last.phase = "ctrl"
    /\ last.before.exists /\ countDecors(last.id) > 0
    /\ last.status = 400 /\ last.after.exists

\* a stock edit being saved: a patch-stock request, or a decor update whose body
\* gives a stock other than the stored one and no status
StockEdit(r) ==
    /\ r.op \in {"updateStock", "updateDecor"}
    /\ r.pc = "save" /\ decors[r.id].exists
    /\ \/ r.op = "updateStock"
       \/ /\ r.op = "updateDecor"
          /\ r.body.stock # None /\ r.body.status = Undefined
          /\ r.body.stock[1] # decors[r.id].stock

\* the request is answered 200 by this step
Answered200(r) == r \notin inflight' /\ last'.status = 200

\* C16: a stock edit of a decor whose status is discontinued, also one that sets
\* the stock to 0, leaves the status discontinued.
C16_DiscontinuedKept ==
    [][\A r \in inflight :
          (StockEdit(r) /\ Answered200(r) /\ decors[r.id].status = DISCONTINUED)
          => decors'[r.id].status = DISCONTINUED]_vars

C18_DeleteDecrementsCount ==
    [][\A r \in inflight :
          (/\ r.op = "deleteDecor" /\ r.pc = "delete" /\ Answered200(r)
           /\ decors[r.id].exists
           /\ CategoryDoc(categories, decors[r.id].category).exists)
          => categories'[decors[r.id].category].decorCount
                = categories[decors[r.id].category].decorCount - 1]_vars

\* C19: the save of a new decor, and the save of a decor update that changes the
\* category, raise the decorCount of the decor's (new) category by one; the save
\* of an update that keeps the category leaves every decorCount as it was.
C19_SaveIncrementsCount ==
    [][\A r \in inflight :
          /\ (/\ r.op = "createDecor" /\ r.pc = "save"
              /\ r \notin inflight' /\ last'.status = 201)
             => categories'[r.doc.category].decorCount
                   = categories[r.doc.category].decorCount + 1
          /\ (/\ r.op = "updateDecor" /\ r.pc = "save" /\ Answered200(r)
              /\ r.doc.category # decors[r.id].category)
             => categories'[r.doc.category].decorCount
                   = categories[r.doc.category].decorCount + 1
          /\ (/\ r.op = "updateDecor" /\ r.pc = "save" /\ Answered200(r)
              /\ r.doc.category = decors[r.id].category)
             => categories' = categories]_vars

\* C20: after a successful save of a decor its originalPrice is unset or above
\* its price.
C20_OriginalPriceAbovePrice ==
    (/\ last.op \in {"createDecor", "updateDecor", "updateStock"}
     /\ last.phase = "ctrl" /\ last.status \in {200, 201})
    => \/ last.after.originalPrice = NoPrice
       \/ last.after.originalPrice > last.after.price

C22_CaughtAnswers500 ==
    (last.phase = "ctrl" /\ last.thrown) => last.status = 500

\* C23: a decor save refused by schema validation or by the unique slug index
\* is answered with status 400.
C23_SaveErrors400 ==
    (/\ last.phase = "ctrl" /\ last.thrown
     /\ last.op \in {"createDecor", "updateDecor", "updateStock"})
    => last.status = 400

\* C24: every decor a public decor read returns (list-active, list-featured, search,
\* decors-in-category, get-by-id) is an active one, except for a get-by-id whose
\* query has includeInactive=true; a get-by-id of a decor that is not active and
\* without includeInactive is answered 404.
C24_PublicReadsActiveOnly ==
    [][\A r \in inflight :
          (r.op \in PublicDecorReads /\ r \notin inflight')
          => /\ \A d \in last'.listed :
                   \/ decors[d].exists /\ decors[d].status = ACTIVE
                   \/ r.op = "getDecorById" /\ r.body.includeInactive
             /\ (/\ r.op = "getDecorById"
                 /\ ~r.body.includeInactive
                 /\ DecorDoc(decors, r.id).status # ACTIVE) => last'.status = 404]_vars

C24_Witness ==
    /\ last.phase = "ctrl" /\ last.op = "searchDecors" /\ last.status = 200
    /\ last.listed # {}
    /\ \E d \in DecorIds \ last.listed : decors[d].exists /\ decors[d].status = DISCONTINUED

\* C25: the token a middleware works with is the one of the Authorization: Bearer
\* header when the header supplies one, and otherwise the token cookie's; the
\* request counts as carrying no token only when neither supplies one.
C25_HeaderThenCookie ==
    last.phase = "applied"
    => LET headerToken == IF last.hdr.scheme = "Bearer" THEN last.hdr.token ELSE NoToken
           expected == IF headerToken # NoToken THEN headerToken ELSE last.cookieToken IN
       last.token = expected

\* C26: in every reachable state every persisted decor references a category that
\* exists, whatever the interleaving of createDecor, updateDecor and deleteCategory.
C26_DecorCategoryExists ==
    \A d \in DecorIds :
        decors[d].exists => CategoryDoc(categories, decors[d].category).exists

\* C27: between requests, after createDecor and updateDecor requests run one at a
\* time from a store with correct counts, every category's decorCount is the number
\* of decors referencing the category.
C27_CountsMatchReferences ==
    inflight = {}
    => \A c \in CategoryIds :
          categories[c].exists => categories[c].decorCount = countDecors(c)

\* C28: once the concurrent patch-stock requests on a decor have all been answered,
\* the decor's status is out_of_stock exactly when its stored stock is 0.
C28_StatusMatchesStock ==
    (/\ inflight = {}
     /\ last.phase = "ctrl" /\ last.op = "updateStock" /\ last.status = 200)
    => (decors[1].status = OUT_OF_STOCK <=> decors[1].stock = 0)

\* the order of the roles: user below admin below super_admin
roleRank(role) == IF role = SUPER_ADMIN THEN 2 ELSE IF role = ADMIN THEN 1 ELSE 0

SuperAdmins(store) == {u \in UserIds : store[u].exists /\ store[u].role = SUPER_ADMIN}

====
